---- MODULE Spec2Model ----
\* Verification model of the WeCom streaming core: the stream registry
\* (StreamManager), the heartbeat scheduler (HeartbeatManager), the per-key
\* message queue (MessageQueueManager) and the webhook handler that wires them.
EXTENDS Integers, Sequences, FiniteSets, TLC

VARIABLES
    now,            \* Date.now(), in milliseconds
    streams,        \* StreamManager.streams: stream id -> record | NoStream
    finishCalls,    \* finishStream calls suspended in processPendingImages
    heartbeats,     \* HeartbeatManager.heartbeats: stream id -> state | NoHb
    queues,         \* MessageQueueManager.queues: key -> state | NoQueue
    cleanupTimers,  \* pending setTimeout closures of _processNext
    proc,           \* per job: position of its processor invocation
    keyOf,          \* per job / stream: the conversation key it was enqueued on
    activeStreams,  \* index.js activeStreams: key -> stream id | None
    deleteTimers,   \* pending setTimeout closures of the poll branch
    nextId,         \* number of stream ids handed out so far
    msgIdOf,        \* per stream: the platform message id whose POST created it
    log             \* observation record (history, not program state)

regVars == <<streams, finishCalls>>
hbVars == <<heartbeats>>
qVars == <<queues, cleanupTimers>>
appVars == <<proc, keyOf, activeStreams, deleteTimers, nextId, msgIdOf>>
vars == <<now, streams, finishCalls, heartbeats, queues, cleanupTimers, proc,
          keyOf, activeStreams, deleteTimers, nextId, msgIdOf, log>>

\* ------------------------------------------------------------------ bounds
MaxStreams == 2
MaxChars == 3
MaxPending == 1
MaxFinishCalls == 2
MaxRegStreams == 1
MaxJobs == 4
MaxBurst == 7

StreamIds == 1..MaxStreams
JobIds == 1..(IF MaxBurst > MaxJobs THEN MaxBurst ELSE MaxJobs)
Keys == {"userA", "groupB"}

None == 0
NoKey == "nokey"
NoMsgId == "nomsgid"
NoStream == [absent |-> TRUE]
NoHb == [absent |-> TRUE]
NoQueue == [absent |-> TRUE]
NoTimer == [absent |-> TRUE]

\* ------------------------------------------------------- text and UTF-8
\* A string is a sequence of runs <<symbol, count>>. A symbol stands for a
\* fixed piece of text made of characters of one UTF-8 width.
SymWidth(s) ==
    CASE s \in {"A1", "SP", "DOT", "NL", "R1", "R2"} -> 1
      [] s = "L2" -> 2
      [] s = "E4" -> 4
      [] OTHER -> 3

\* number of characters of one occurrence of the symbol
SymChars(s) ==
    CASE s \in {"TH0", "TH1", "TH2"} -> 4
      [] s = "TH3" -> 6
      [] s \in {"R1", "R2"} -> 5
      [] s = "TIMEOUT" -> 48
      [] s = "QFULL" -> 30
      [] s \in {"WAIT1", "WAITN"} -> 20
      [] OTHER -> 1

\* the plain character of a given width: what is left of a symbol that was cut
Generic(w) == CASE w = 1 -> "A1" [] w = 2 -> "L2" [] w = 4 -> "E4" [] OTHER -> "C3"

ThinkingSyms == {"TH0", "TH1", "TH2", "TH3"}

RECURSIVE ByteLen(_)
ByteLen(str) ==
    IF str = <<>> THEN 0
    ELSE str[1][2] * SymChars(str[1][1]) * SymWidth(str[1][1]) + ByteLen(Tail(str))

RECURSIVE CharLen(_)
CharLen(str) ==
    IF str = <<>> THEN 0
    ELSE str[1][2] * SymChars(str[1][1]) + CharLen(Tail(str))

\* string concatenation; adjacent runs of one symbol are one run
Concat(a, b) ==
    IF a = <<>> THEN b
    ELSE IF b = <<>> THEN a
    ELSE IF a[Len(a)][1] = b[1][1]
         THEN SubSeq(a, 1, Len(a) - 1)
                \o << <<b[1][1], a[Len(a)][2] + b[1][2]>> >> \o Tail(b)
         ELSE a \o b

HasSym(str, s) == \E i \in 1..Len(str) : str[i][1] = s

\* Buffer.from(str, 'utf8').slice(0, limit).toString('utf8'): the first `limit`
\* bytes decoded again; an incomplete trailing sequence decodes to U+FFFD.
RECURSIVE Utf8Slice(_, _)
Utf8Slice(str, limit) ==
    IF str = <<>> \/ limit <= 0 THEN <<>>
    ELSE LET s == str[1][1]
             w == SymWidth(s)
             unit == SymChars(s) * w
             bytes == str[1][2] * unit
         IN IF bytes <= limit
            THEN Concat(<<str[1]>>, Utf8Slice(Tail(str), limit - bytes))
            ELSE LET whole == limit \div unit
                     rest == limit % unit
                     chars == rest \div w
                     partial == rest % w
                 IN Concat(IF whole > 0 THEN << <<s, whole>> >> ELSE <<>>,
                      Concat(IF chars > 0 THEN << <<Generic(w), chars>> >> ELSE <<>>,
                             IF partial > 0 THEN << <<"FFFD", 1>> >> ELSE <<>>))

MaxContentBytes == 20480
MaxMsgItems == 10

\* the length check and truncation of updateStream / appendStream
TruncateContent(str) ==
    IF ByteLen(str) > MaxContentBytes THEN Utf8Slice(str, MaxContentBytes) ELSE str

Min(a, b) == IF a < b THEN a ELSE b

\* ---------------------------------------------------------- StreamManager
Present(ss, id) == ss[id] # NoStream

createStream(ss, id) ==
    [ss EXCEPT ![id] = [content |-> <<>>, finished |-> FALSE, updatedAt |-> now,
                        msgItem |-> <<>>, pendingImages |-> <<>>]]

\* updateStream that creates the record when the id is missing
updateStreamUpsert(ss, id, content, finished, msgItem) ==
    LET ss1 == IF Present(ss, id) THEN ss ELSE createStream(ss, id)
    IN [ss1 EXCEPT ![id] =
            [@ EXCEPT !.content = TruncateContent(content),
                      !.finished = finished,
                      !.updatedAt = now,
                      !.msgItem = IF finished /\ Len(msgItem) > 0
                                  THEN SubSeq(msgItem, 1, Min(MaxMsgItems, Len(msgItem)))
                                  ELSE @]]

updateStream(ss, id, content, finished, msgItem) ==
    IF ~Present(ss, id) THEN ss
    ELSE [ss EXCEPT ![id] =
            [@ EXCEPT !.content = TruncateContent(content),
                      !.finished = finished,
                      !.updatedAt = now,
                      !.msgItem = IF finished /\ Len(msgItem) > 0
                                  THEN SubSeq(msgItem, 1, Min(MaxMsgItems, Len(msgItem)))
                                  ELSE @]]

appendStream(ss, id, chunk) ==
    IF ~Present(ss, id) THEN ss
    ELSE [ss EXCEPT ![id] =
            [@ EXCEPT !.content = TruncateContent(Concat(@, chunk)),
                      !.updatedAt = now]]

queueImage(ss, id, path) ==
    IF ~Present(ss, id) THEN ss
    ELSE [ss EXCEPT ![id] = [@ EXCEPT !.pendingImages =
                                    Append(@, [path |-> path, queuedAt |-> now])]]

\* the finished guard of finishStream left out
finishStreamPassesUnguarded(ss, id) == Present(ss, id)

\* finishStream, the part that runs without suspending: TRUE when the call
\* passes both guards
finishStreamPasses(ss, id) == Present(ss, id) /\ ~ss[id].finished

\* the assignments after the (possibly skipped) await of processPendingImages
finishStreamCommit(ss, id, items, processed) ==
    IF ~Present(ss, id) THEN ss
    ELSE [ss EXCEPT ![id] =
            [@ EXCEPT !.msgItem = IF processed THEN items ELSE @,
                      !.finished = TRUE,
                      !.updatedAt = now]]

\* finishStream on a stream with no pending image runs to completion at once
finishStreamSync(ss, id) ==
    IF finishStreamPasses(ss, id) THEN finishStreamCommit(ss, id, <<>>, FALSE) ELSE ss

\* what updateStream, appendStream, queueImage and finishStream return
Returns(method, ss, id) ==
    IF method = "finishStream" THEN finishStreamPasses(ss, id) ELSE Present(ss, id)

\* getStream: the record, or NoStream for undefined
getStream(ss, id) == ss[id]

\* deleteStream that leaves the record in the registry
deleteStreamKeeps(ss, id) == ss

deleteStream(ss, id) == [ss EXCEPT ![id] = NoStream]

DefaultExpiry == 600000

\* `this._expiryMs || 10 * 60 * 1000`; 0 stands for a value never set
expiryTimeout(expiryMs) == IF expiryMs = 0 THEN DefaultExpiry ELSE expiryMs

Expired(ss, id, expiryMs) == Present(ss, id) /\ now - ss[id].updatedAt > expiryTimeout(expiryMs)

\* cleanup that stops after the first expired stream
cleanupFirstOnly(ss, expiryMs) ==
    [id \in DOMAIN ss |->
        IF Expired(ss, id, expiryMs) /\ \A i \in DOMAIN ss : i < id => ~Expired(ss, i, expiryMs)
        THEN NoStream ELSE ss[id]]

\* a sweep that removes only finished streams
cleanupFinishedOnly(ss, expiryMs) ==
    [id \in DOMAIN ss |-> IF Expired(ss, id, expiryMs) /\ ss[id].finished
                          THEN NoStream ELSE ss[id]]

\* StreamManager.cleanup
cleanup(ss, expiryMs) ==
    [id \in DOMAIN ss |-> IF Expired(ss, id, expiryMs) THEN NoStream ELSE ss[id]]

\* -------------------------------------------------------- HeartbeatManager
HeartbeatInterval == 3000
MaxTimeout == 60000
PhrasePeriod == 10000

Thinking(i) == CASE i = 0 -> "TH0" [] i = 1 -> "TH1" [] i = 2 -> "TH2" [] OTHER -> "TH3"

\* `${thinkingMsg}${dots} ⏳`
HeartbeatContent(elapsed, dots) ==
    << <<Thinking((elapsed \div PhrasePeriod) % 4), 1>>, <<"DOT", dots + 1>>,
       <<"SP", 1>>, <<"HG", 1>> >>

\* the symbols whose text contains one of the four thinking phrases
ContainsThinking(s) == s \in ThinkingSyms \/ s = "QFULL"

\* the symbols whose text contains the hourglass
ContainsHourglass(s) == s \in {"HG", "WAIT1", "WAITN"}

\* _isHeartbeatContent that looks for the hourglass only
isHeartbeatContentHourglassOnly(content) ==
    /\ content # <<>>
    /\ \E i \in 1..Len(content) : ContainsHourglass(content[i][1])

\* HeartbeatManager._isHeartbeatContent
isHeartbeatContent(content) ==
    /\ content # <<>>
    /\ \E i \in 1..Len(content) : ContainsHourglass(content[i][1])
    /\ \E i \in 1..Len(content) : ContainsThinking(content[i][1])

hbHas(hb, id) == hb[id] # NoHb

\* HeartbeatManager.start; the timer's next firing time stands for the interval
hbStart(hb, id) ==
    IF hbHas(hb, id) THEN hb
    ELSE [hb EXCEPT ![id] = [startTime |-> now, dots |-> 0, hasContent |-> FALSE,
                             nextFire |-> now + HeartbeatInterval]]

hbStop(hb, id) == [hb EXCEPT ![id] = NoHb]

hbDeadlineTwoTicksLate(elapsed) == elapsed >= MaxTimeout + 2 * HeartbeatInterval

\* the deadline test at the top of _tick
hbDeadlineReached(elapsed) == elapsed >= MaxTimeout

\* the test that latches hasContent
hbSeesRealContent(content) == content # <<>> /\ ~isHeartbeatContent(content)

\* _tick without the test for a finished stream
hbTickIgnoresFinished(hb, ss, id) ==
    LET st == hb[id]
        elapsed == now - st.startTime
        rearmed == [hb EXCEPT ![id] = [@ EXCEPT !.nextFire = @ + HeartbeatInterval]]
    IN IF hbDeadlineReached(elapsed)
       THEN [hb |-> hbStop(hb, id), ss |-> ss, timeout |-> TRUE]
       ELSE IF ~Present(ss, id)
       THEN [hb |-> hbStop(hb, id), ss |-> ss, timeout |-> FALSE]
       ELSE IF hbSeesRealContent(ss[id].content)
       THEN [hb |-> [rearmed EXCEPT ![id] = [@ EXCEPT !.hasContent = TRUE]],
             ss |-> ss, timeout |-> FALSE]
       ELSE IF st.hasContent
       THEN [hb |-> rearmed, ss |-> ss, timeout |-> FALSE]
       ELSE LET d == (st.dots + 1) % 4
            IN [hb |-> [rearmed EXCEPT ![id] = [@ EXCEPT !.dots = d]],
                ss |-> updateStream(ss, id, HeartbeatContent(elapsed, d), FALSE, <<>>),
                timeout |-> FALSE]

\* HeartbeatManager._tick up to (and excluding) the onTimeout callback:
\* the new heartbeat table, the new registry, and whether onTimeout is due
hbTick(hb, ss, id) ==
    LET st == hb[id]
        elapsed == now - st.startTime
        rearmed == [hb EXCEPT ![id] = [@ EXCEPT !.nextFire = @ + HeartbeatInterval]]
    IN IF hbDeadlineReached(elapsed)
       THEN [hb |-> hbStop(hb, id), ss |-> ss, timeout |-> TRUE]
       ELSE IF ~Present(ss, id) \/ ss[id].finished
       THEN [hb |-> hbStop(hb, id), ss |-> ss, timeout |-> FALSE]
       ELSE IF hbSeesRealContent(ss[id].content)
       THEN [hb |-> [rearmed EXCEPT ![id] = [@ EXCEPT !.hasContent = TRUE]],
             ss |-> ss, timeout |-> FALSE]
       ELSE IF st.hasContent
       THEN [hb |-> rearmed, ss |-> ss, timeout |-> FALSE]
       ELSE LET d == (st.dots + 1) % 4
            IN [hb |-> [rearmed EXCEPT ![id] = [@ EXCEPT !.dots = d]],
                ss |-> updateStream(ss, id, HeartbeatContent(elapsed, d), FALSE, <<>>),
                timeout |-> FALSE]

\* ----------------------------------------------------- MessageQueueManager
MaxQueueSize == 5
CleanupDelay == 60000

NewQueueState == [processing |-> FALSE, currentStreamId |-> None, queue |-> <<>>,
                  cleanupGen |-> 0]

\* enqueue with the capacity test written > instead of >=
enqueueOffByOne(qs, key, sid) ==
    LET st == IF qs[key] = NoQueue THEN NewQueueState ELSE qs[key]
    IN IF ~st.processing
       THEN [queues |-> [qs EXCEPT ![key] = [st EXCEPT !.processing = TRUE,
                                                     !.currentStreamId = sid]],
             queued |-> FALSE, queueFull |-> FALSE, position |-> 0, start |-> sid]
       ELSE IF Len(st.queue) > MaxQueueSize
       THEN [queues |-> [qs EXCEPT ![key] = st],
             queued |-> FALSE, queueFull |-> TRUE, position |-> 0, start |-> None]
       ELSE [queues |-> [qs EXCEPT ![key] = [st EXCEPT !.queue = Append(@, sid)]],
             queued |-> TRUE, queueFull |-> FALSE, position |-> Len(st.queue) + 1,
             start |-> None]

\* enqueue with one processing flag shared by all keys
enqueueGlobalBusy(qs, key, sid) ==
    LET st == IF qs[key] = NoQueue THEN NewQueueState ELSE qs[key]
        busy == \E k \in DOMAIN qs : qs[k] # NoQueue /\ qs[k].processing
    IN IF ~busy
       THEN [queues |-> [qs EXCEPT ![key] = [st EXCEPT !.processing = TRUE,
                                                     !.currentStreamId = sid]],
             queued |-> FALSE, queueFull |-> FALSE, position |-> 0, start |-> sid]
       ELSE IF Len(st.queue) >= MaxQueueSize
       THEN [queues |-> [qs EXCEPT ![key] = st],
             queued |-> FALSE, queueFull |-> TRUE, position |-> 0, start |-> None]
       ELSE [queues |-> [qs EXCEPT ![key] = [st EXCEPT !.queue = Append(@, sid)]],
             queued |-> TRUE, queueFull |-> FALSE, position |-> Len(st.queue) + 1,
             start |-> None]

\* enqueue reporting the position read before the push (0-based)
enqueuePositionFromZero(qs, key, sid) ==
    LET st == IF qs[key] = NoQueue THEN NewQueueState ELSE qs[key]
    IN IF ~st.processing
       THEN [queues |-> [qs EXCEPT ![key] = [st EXCEPT !.processing = TRUE,
                                                     !.currentStreamId = sid]],
             queued |-> FALSE, queueFull |-> FALSE, position |-> 0, start |-> sid]
       ELSE IF Len(st.queue) >= MaxQueueSize
       THEN [queues |-> [qs EXCEPT ![key] = st],
             queued |-> FALSE, queueFull |-> TRUE, position |-> 0, start |-> None]
       ELSE [queues |-> [qs EXCEPT ![key] = [st EXCEPT !.queue = Append(@, sid)]],
             queued |-> TRUE, queueFull |-> FALSE, position |-> Len(st.queue),
             start |-> None]

\* MessageQueueManager.enqueue: the new table, the returned object, and the
\* job whose processor the call starts (None when it starts none)
enqueue(qs, key, sid) ==
    LET st == IF qs[key] = NoQueue THEN NewQueueState ELSE qs[key]
    IN IF ~st.processing
       THEN [queues |-> [qs EXCEPT ![key] = [st EXCEPT !.processing = TRUE,
                                                     !.currentStreamId = sid]],
             queued |-> FALSE, queueFull |-> FALSE, position |-> 0, start |-> sid]
       ELSE IF Len(st.queue) >= MaxQueueSize
       THEN [queues |-> [qs EXCEPT ![key] = st],
             queued |-> FALSE, queueFull |-> TRUE, position |-> 0, start |-> None]
       ELSE [queues |-> [qs EXCEPT ![key] = [st EXCEPT !.queue = Append(@, sid)]],
             queued |-> TRUE, queueFull |-> FALSE, position |-> Len(st.queue) + 1,
             start |-> None]

\* _processNext taking the newest backlog entry (pop) instead of the oldest (shift)
processNextNewest(qs, key) ==
    IF qs[key] = NoQueue
    THEN [queues |-> qs, start |-> None, timer |-> NoTimer]
    ELSE IF qs[key].queue # <<>>
    THEN LET q == qs[key].queue
         IN [queues |-> [qs EXCEPT ![key] = [@ EXCEPT !.currentStreamId = q[Len(q)],
                                                     !.queue = SubSeq(q, 1, Len(q) - 1)]],
             start |-> q[Len(q)], timer |-> NoTimer]
    ELSE [queues |-> [qs EXCEPT ![key] = [@ EXCEPT !.processing = FALSE,
                                                  !.currentStreamId = None,
                                                  !.cleanupGen = @ + 1]],
          start |-> None,
          timer |-> [key |-> key, gen |-> qs[key].cleanupGen + 1,
                     due |-> now + CleanupDelay]]

\* MessageQueueManager._processNext: the new table, the job it starts, and the
\* reclamation timer it arms (NoTimer when it arms none)
processNext(qs, key) ==
    IF qs[key] = NoQueue
    THEN [queues |-> qs, start |-> None, timer |-> NoTimer]
    ELSE IF qs[key].queue # <<>>
    THEN [queues |-> [qs EXCEPT ![key] = [@ EXCEPT !.currentStreamId = Head(qs[key].queue),
                                                  !.queue = Tail(qs[key].queue)]],
          start |-> Head(qs[key].queue), timer |-> NoTimer]
    ELSE [queues |-> [qs EXCEPT ![key] = [@ EXCEPT !.processing = FALSE,
                                                  !.currentStreamId = None,
                                                  !.cleanupGen = @ + 1]],
          start |-> None,
          timer |-> [key |-> key, gen |-> qs[key].cleanupGen + 1,
                     due |-> now + CleanupDelay]]

\* the closure _processNext hands to setTimeout
cleanupFire(qs, t) ==
    IF /\ qs[t.key] # NoQueue
       /\ ~qs[t.key].processing
       /\ qs[t.key].queue = <<>>
       /\ qs[t.key].cleanupGen = t.gen
    THEN [qs EXCEPT ![t.key] = NoQueue]
    ELSE qs

\* MessageQueueManager.cancel
cancel(qs, key) ==
    IF qs[key] = NoQueue THEN qs ELSE [qs EXCEPT ![key] = [@ EXCEPT !.queue = <<>>]]

\* reset that empties the backlog but leaves the key marked as processing
resetKeepsProcessing(qs, key) ==
    IF qs[key] = NoQueue THEN qs
    ELSE [qs EXCEPT ![key] = [@ EXCEPT !.queue = <<>>, !.currentStreamId = None]]

\* MessageQueueManager.reset
reset(qs, key) ==
    IF qs[key] = NoQueue THEN qs
    ELSE [qs EXCEPT ![key] = [@ EXCEPT !.queue = <<>>, !.processing = FALSE,
                                      !.currentStreamId = None]]

isProcessing(qs, key) == IF qs[key] = NoQueue THEN FALSE ELSE qs[key].processing
getQueueLength(qs, key) == IF qs[key] = NoQueue THEN 0 ELSE Len(qs[key].queue)
getCurrentStreamId(qs, key) == IF qs[key] = NoQueue THEN None ELSE qs[key].currentStreamId

\* ------------------------------------------------------------ observation
\* What the properties below observe of a run; no action reads it.
NoReturn == [job |-> None, key |-> NoKey, queued |-> FALSE, queueFull |-> FALSE,
             position |-> 0]

LogInit ==
    [last |-> NoReturn,                      \* what the latest enqueue call returned
     discarded |-> [k \in Keys |-> None],    \* per key: the first job that cancel or
                                             \* reset removed from the backlog
     lastStarted |-> [k \in Keys |-> None],  \* per key: the job started last
     startedVia |-> [k \in Keys |-> "none"], \* and what started it
     how |-> "none"]                         \* how the processor ended whose
                                             \* completion started a backlog job last

\* the step is an enqueue call
EnqueueStep == nextId' = nextId + 1

InProgress(j) == proc[j] # "none"

InBacklog(j) ==
    \E k \in Keys : queues[k] # NoQueue
                    /\ \E i \in 1..Len(queues[k].queue) : queues[k].queue[i] = j

\* ======================================================================
\* SpecQueue: the message queue alone, driven through its public methods by
\* processors that take arbitrarily long and end by return or by throw.
\* ======================================================================
InitRegistry == streams = [i \in StreamIds |-> NoStream] /\ finishCalls = <<>>

InitHeartbeats == heartbeats = [i \in StreamIds |-> NoHb]

InitQueues == queues = [k \in Keys |-> NoQueue] /\ cleanupTimers = <<>>

InitJobs(ids) ==
    /\ proc = [j \in ids |-> "none"]
    /\ keyOf = [j \in ids |-> NoKey]
    /\ msgIdOf = [j \in ids |-> NoMsgId]
    /\ activeStreams = [k \in Keys |-> None]
    /\ deleteTimers = <<>>

QInit ==
    /\ now = 0
    /\ InitRegistry
    /\ InitHeartbeats
    /\ InitQueues
    /\ InitJobs(JobIds)
    /\ nextId = 0
    /\ log = LogInit

QUnused == <<now, streams, finishCalls, heartbeats, activeStreams, deleteTimers, msgIdOf>>

FirstDiscarded(k) ==
    IF log.discarded[k] = None /\ getQueueLength(queues, k) > 0
    THEN [log EXCEPT !.discarded[k] = Head(queues[k].queue)]
    ELSE log

\* the jobs whose closures the queue or a running processor still holds
Held(qs, pr, j) ==
    \/ pr[j] # "none"
    \/ \E k \in Keys : qs[k] # NoQueue
                       /\ \E i \in 1..Len(qs[k].queue) : qs[k].queue[i] = j

\* _processMessage without the finally block: after a throw nothing runs
\* _processNext and the key stays marked as processing
QCompleteNoFinally(j, how) ==
    /\ proc[j] = "running"
    /\ how \in {"return", "throw"}
    /\ LET r == IF how = "throw" THEN [queues |-> queues, start |-> None, timer |-> NoTimer]
                ELSE processNext(queues, keyOf[j])
       IN /\ queues' = r.queues
          /\ proc' = [i \in JobIds |-> IF i = j THEN "none"
                                       ELSE IF i = r.start THEN "running" ELSE proc[i]]
          /\ cleanupTimers' = IF r.timer # NoTimer THEN Append(cleanupTimers, r.timer)
                              ELSE cleanupTimers
          /\ keyOf' = [keyOf EXCEPT ![j] = NoKey]
          /\ log' = IF r.start = None THEN log
                    ELSE [log EXCEPT !.lastStarted[keyOf[j]] = r.start,
                                     !.startedVia[keyOf[j]] = "backlog",
                                     !.how = how]
    /\ UNCHANGED <<nextId>>
    /\ UNCHANGED QUnused

\* messageQueue.enqueue(key, {streamId: j}, processor); _processMessage starts
\* the processor inside the call when the key is idle
QEnqueue(k, maxJobs) ==
    /\ nextId < maxJobs
    /\ LET j == nextId + 1
           r == enqueue(queues, k, j)
       IN /\ queues' = r.queues
          /\ nextId' = j
          /\ keyOf' = IF r.queueFull THEN keyOf ELSE [keyOf EXCEPT ![j] = k]
          /\ proc' = IF r.start # None THEN [proc EXCEPT ![j] = "running"] ELSE proc
          /\ log' = [log EXCEPT !.last = [job |-> j, key |-> k, queued |-> r.queued,
                                          queueFull |-> r.queueFull,
                                          position |-> r.position],
                                !.lastStarted[k] = IF r.start # None THEN j ELSE @,
                                !.startedVia[k] = IF r.start # None THEN "enqueue" ELSE @]
    /\ UNCHANGED <<cleanupTimers>>
    /\ UNCHANGED QUnused

\* the processor of job j settles; the finally block of _processMessage runs
\* _processNext
QComplete(j, how) ==
    /\ proc[j] = "running"
    /\ how \in {"return", "throw"}
    /\ LET r == processNext(queues, keyOf[j])
       IN /\ queues' = r.queues
          /\ proc' = [i \in JobIds |-> IF i = j THEN "none"
                                       ELSE IF i = r.start THEN "running" ELSE proc[i]]
          /\ cleanupTimers' = IF r.timer # NoTimer THEN Append(cleanupTimers, r.timer)
                              ELSE cleanupTimers
          /\ keyOf' = [keyOf EXCEPT ![j] = NoKey]
          /\ log' = IF r.start = None THEN log
                    ELSE [log EXCEPT !.lastStarted[keyOf[j]] = r.start,
                                     !.startedVia[keyOf[j]] = "backlog",
                                     !.how = how]
    /\ UNCHANGED <<nextId>>
    /\ UNCHANGED QUnused

QCancel(k) ==
    /\ queues' = cancel(queues, k)
    /\ keyOf' = [j \in JobIds |-> IF Held(queues', proc, j) THEN keyOf[j] ELSE NoKey]
    /\ log' = FirstDiscarded(k)
    /\ UNCHANGED <<cleanupTimers, proc, nextId>>
    /\ UNCHANGED QUnused

QReset(k) ==
    /\ queues' = reset(queues, k)
    /\ keyOf' = [j \in JobIds |-> IF Held(queues', proc, j) THEN keyOf[j] ELSE NoKey]
    /\ log' = FirstDiscarded(k)
    /\ UNCHANGED <<cleanupTimers, proc, nextId>>
    /\ UNCHANGED QUnused

\* the oldest reclamation timer fires (all are armed with the same delay)
QCleanupFire ==
    /\ cleanupTimers # <<>>
    /\ queues' = cleanupFire(queues, Head(cleanupTimers))
    /\ cleanupTimers' = Tail(cleanupTimers)
    /\ UNCHANGED <<proc, keyOf, nextId, log>>
    /\ UNCHANGED QUnused

QNext ==
    \/ \E k \in Keys : QEnqueue(k, MaxJobs)
    \/ \E j \in JobIds : QComplete(j, "return")
    \/ \E j \in JobIds : QComplete(j, "throw")
    \/ \E k \in Keys : QCancel(k)
    \/ \E k \in Keys : QReset(k)
    \/ QCleanupFire

SpecQueue == QInit /\ [][QNext]_vars

\* SpecQueueFair: the queue of one key, every processor invocation terminating
ProcessorEnds(j) == QComplete(j, "return") \/ QComplete(j, "throw")

FairNext ==
    \/ QEnqueue("userA", MaxJobs)
    \/ \E j \in JobIds : QComplete(j, "return")
    \/ \E j \in JobIds : QComplete(j, "throw")
    \/ QCancel("userA")
    \/ QReset("userA")
    \/ QCleanupFire

SpecQueueFair ==
    QInit /\ [][FairNext]_vars /\ \A j \in 1..MaxJobs : WF_vars(ProcessorEnds(j))

\* SpecBurst: the same queue under a burst of enqueue calls on one key, long
\* enough to fill the backlog and overflow it.
BNext ==
    \/ QEnqueue("userA", MaxBurst)
    \/ \E j \in JobIds : QComplete(j, "return")
    \/ \E j \in JobIds : QComplete(j, "throw")
    \/ QCancel("userA")
    \/ QReset("userA")
    \/ QCleanupFire

SpecBurst == QInit /\ [][BNext]_vars

\* ======================================================================
\* SpecText: updateStream and appendStream applied to one stream, with inputs
\* that reach the byte limit at every offset inside a multi-byte character.
\* ======================================================================
Chars == {"A1", "L2", "C3", "E4"}

Str(s, n) == << <<s, n>> >>

\* a run of ASCII that ends d bytes before the limit
Bulk(d) == Str("A1", MaxContentBytes - d)

TextInputs ==
    {<<>>} \cup {Str(c, 1) : c \in Chars}
           \cup {Bulk(d) : d \in 0..3}
           \cup {Concat(Bulk(d), Str(c, 1)) : d \in 1..3, c \in Chars \ {"A1"}}

\* the inputs keep a string either short or close to the limit
Growable(str) == CharLen(str) < MaxChars \/ ByteLen(str) + 4 >= MaxContentBytes

TInit ==
    /\ now = 0
    /\ streams = createStream([i \in StreamIds |-> NoStream], 1)
    /\ finishCalls = <<>>
    /\ InitHeartbeats
    /\ InitQueues
    /\ InitJobs(StreamIds)
    /\ nextId = 1
    /\ log = LogInit

TUnused == <<now, finishCalls, heartbeats, queues, cleanupTimers, proc, keyOf,
             activeStreams, deleteTimers, nextId, msgIdOf, log>>

TUpdate(content, finished) ==
    /\ streams' = updateStream(streams, 1, content, finished, <<>>)
    /\ UNCHANGED TUnused

TAppend(chunk) ==
    /\ Growable(streams[1].content)
    /\ streams' = appendStream(streams, 1, chunk)
    /\ UNCHANGED TUnused

TNext ==
    \/ \E c \in TextInputs, f \in BOOLEAN : TUpdate(c, f)
    \/ \E c \in Chars : TAppend(Str(c, 1))

SpecText == TInit /\ [][TNext]_vars

\* C10: after every update or append the content is at most 20,480 bytes of
\* UTF-8 and holds no character that the cut split (a split character shows as
\* U+FFFD, which no input contains).
C10_TruncationKeepsLimit ==
    \A id \in StreamIds : Present(streams, id) =>
        /\ ByteLen(streams[id].content) <= 20480
        /\ ~HasSym(streams[id].content, "FFFD")


\* ======================================================================
\* SpecStream: the registry alone, driven through its public methods; the
\* image preparer inside finishStream succeeds or throws per image.
\* ======================================================================
Paths == {"img1"}

\* processPendingImages with the limit tested after the loop's last image only
prepareSettledUnbounded(ss, calls, i, ok) ==
    LET c == calls[i]
        without == [n \in 1..(Len(calls) - 1) |-> IF n < i THEN calls[n] ELSE calls[n + 1]]
    IN IF ~Present(ss, c.sid)
       THEN [ss |-> ss, calls |-> without]
       ELSE LET pend == ss[c.sid].pendingImages
                items == IF ok THEN Append(c.items, pend[c.idx].path) ELSE c.items
            IN IF c.idx < Len(pend)
               THEN [ss |-> ss,
                     calls |-> [calls EXCEPT ![i] = [sid |-> c.sid, idx |-> c.idx + 1,
                                                     items |-> items]]]
               ELSE [ss |-> finishStreamCommit(ss, c.sid, items, TRUE), calls |-> without]

\* processPendingImages with the catch outside the loop: the first failure ends
\* the pass
prepareSettledAbortsOnFailure(ss, calls, i, ok) ==
    LET c == calls[i]
        without == [n \in 1..(Len(calls) - 1) |-> IF n < i THEN calls[n] ELSE calls[n + 1]]
    IN IF ~Present(ss, c.sid)
       THEN [ss |-> ss, calls |-> without]
       ELSE LET pend == ss[c.sid].pendingImages
                items == IF ok THEN Append(c.items, pend[c.idx].path) ELSE c.items
            IN IF ok /\ c.idx < Len(pend) /\ Len(items) < MaxMsgItems
               THEN [ss |-> ss,
                     calls |-> [calls EXCEPT ![i] = [sid |-> c.sid, idx |-> c.idx + 1,
                                                     items |-> items]]]
               ELSE [ss |-> finishStreamCommit(ss, c.sid, items, TRUE), calls |-> without]

\* processPendingImages after the await on image `idx` has settled: the loop
\* goes on to the next image, or ends and finishStream stores the result.
\* A call whose stream left the registry only touches the detached record.
prepareSettled(ss, calls, i, ok) ==
    LET c == calls[i]
        without == [n \in 1..(Len(calls) - 1) |-> IF n < i THEN calls[n] ELSE calls[n + 1]]
    IN IF ~Present(ss, c.sid)
       THEN [ss |-> ss, calls |-> without]
       ELSE LET pend == ss[c.sid].pendingImages
                items == IF ok THEN Append(c.items, pend[c.idx].path) ELSE c.items
            IN IF c.idx < Len(pend) /\ Len(items) < MaxMsgItems
               THEN [ss |-> ss,
                     calls |-> [calls EXCEPT ![i] = [sid |-> c.sid, idx |-> c.idx + 1,
                                                     items |-> items]]]
               ELSE [ss |-> finishStreamCommit(ss, c.sid, items, TRUE), calls |-> without]

\* finishStream up to its first suspension
finishStreamBegin(ss, calls, id) ==
    IF ~finishStreamPasses(ss, id) THEN [ss |-> ss, calls |-> calls, rejected |-> TRUE]
    ELSE IF ss[id].pendingImages = <<>>
    THEN [ss |-> finishStreamCommit(ss, id, <<>>, FALSE), calls |-> calls,
          rejected |-> FALSE]
    ELSE [ss |-> ss, calls |-> Append(calls, [sid |-> id, idx |-> 1, items |-> <<>>]),
          rejected |-> FALSE]

\* What the properties below observe of a registry run; no action reads it.
SLogInit == [op |-> "none", id |-> None,
             rejected |-> FALSE,                    \* the latest finish returned false
             passes |-> [i \in StreamIds |-> 0]]    \* passes over pendingImages begun
SLog(op, id) == [log EXCEPT !.op = "other", !.id = None, !.rejected = FALSE]

SInit ==
    /\ now = 0
    /\ InitRegistry
    /\ InitHeartbeats
    /\ InitQueues
    /\ InitJobs(StreamIds)
    /\ nextId = 0
    /\ log = SLogInit

SUnused == <<now, heartbeats, queues, cleanupTimers, proc, keyOf, activeStreams,
             deleteTimers, msgIdOf>>

SCreate ==
    /\ nextId < MaxRegStreams
    /\ nextId' = nextId + 1
    /\ streams' = createStream(streams, nextId + 1)
    /\ log' = SLog("create", nextId + 1)
    /\ UNCHANGED finishCalls
    /\ UNCHANGED SUnused

SUpdate(id, content, finished, msgItem) ==
    /\ streams' = updateStream(streams, id, content, finished, msgItem)
    /\ log' = SLog("update", id)
    /\ UNCHANGED <<finishCalls, nextId>>
    /\ UNCHANGED SUnused

SAppend(id, chunk) ==
    /\ Present(streams, id) => Growable(streams[id].content)
    /\ streams' = appendStream(streams, id, chunk)
    /\ log' = SLog("append", id)
    /\ UNCHANGED <<finishCalls, nextId>>
    /\ UNCHANGED SUnused

SQueueImage(id, path) ==
    /\ Present(streams, id) => Len(streams[id].pendingImages) < MaxPending
    /\ streams' = queueImage(streams, id, path)
    /\ log' = SLog("queueImage", id)
    /\ UNCHANGED <<finishCalls, nextId>>
    /\ UNCHANGED SUnused

SFinish(id) ==
    /\ Len(finishCalls) < MaxFinishCalls
    /\ LET r == finishStreamBegin(streams, finishCalls, id)
       IN /\ streams' = r.ss
          /\ finishCalls' = r.calls
          /\ log' = [log EXCEPT !.op = "finish", !.id = id, !.rejected = r.rejected,
                                !.passes[id] = IF Len(r.calls) > Len(finishCalls)
                                               THEN Min(@ + 1, 2) ELSE @]
    /\ UNCHANGED nextId
    /\ UNCHANGED SUnused

SPrepared(i, ok) ==
    /\ i \in 1..Len(finishCalls)
    /\ LET r == prepareSettled(streams, finishCalls, i, ok)
       IN streams' = r.ss /\ finishCalls' = r.calls
    /\ log' = SLog("prepared", finishCalls[i].sid)
    /\ UNCHANGED nextId
    /\ UNCHANGED SUnused

SDelete(id) ==
    /\ Present(streams, id)
    /\ streams' = deleteStream(streams, id)
    /\ log' = SLog("delete", id)
    /\ UNCHANGED <<finishCalls, nextId>>
    /\ UNCHANGED SUnused

\* the ids the registry is called with: those it has handed out or will
RegIds == 1..MaxRegStreams

SNext ==
    \/ SCreate
    \/ \E id \in RegIds, c \in {<<>>, Str("R1", 1)}, f \in BOOLEAN,
          m \in {<<>>, <<"item">>} : SUpdate(id, c, f, m)
    \/ \E id \in RegIds : SAppend(id, Str("R1", 1))
    \/ \E id \in RegIds, p \in Paths : SQueueImage(id, p)
    \/ \E id \in RegIds : SFinish(id)
    \/ \E i \in 1..MaxFinishCalls : SPrepared(i, TRUE)
    \/ \E i \in 1..MaxFinishCalls : SPrepared(i, FALSE)
    \/ \E id \in RegIds : SDelete(id)

SpecStream == SInit /\ [][SNext]_vars

\* C9: the finished flag of a stream record never goes from true back to
\* false, whatever update, append, queueImage and finish calls are made on it.
C9_FinishedIsMonotonic ==
    [][\A id \in StreamIds :
          (Present(streams, id) /\ streams[id].finished /\ Present(streams', id))
              => streams'[id].finished]_vars

\* C25: on an id that is not in the registry, updateStream, appendStream,
\* queueImage and finishStream return false and leave the registry and the
\* finish calls in progress as they are, and getStream returns undefined.
C25_MissIsNoOp ==
    \A id \in StreamIds :
        ~Present(streams, id) =>
            /\ \A c \in {<<>>, Str("R1", 1)}, f \in BOOLEAN, m \in {<<>>, <<"item">>} :
                   updateStream(streams, id, c, f, m) = streams
            /\ appendStream(streams, id, Str("R1", 1)) = streams
            /\ \A p \in Paths : queueImage(streams, id, p) = streams
            /\ LET r == finishStreamBegin(streams, finishCalls, id)
               IN r.ss = streams /\ r.calls = finishCalls /\ r.rejected
            /\ \A m \in {"updateStream", "appendStream", "queueImage", "finishStream"} :
                   ~Returns(m, streams, id)
            /\ getStream(streams, id) = NoStream

\* finishStream was called on the id of a deleted stream and returned false
C25_Witness ==
    /\ log.op = "finish"
    /\ log.rejected
    /\ nextId >= 1
    /\ ~Present(streams, log.id)

\* C11: the pass over pendingImages that calls the image preparer is begun at
\* most once per stream, also when a finish call begins while an earlier one
\* on the same stream is still awaiting the preparer.
C11_OnePassPerStream ==
    \A id \in StreamIds : log.passes[id] <= 1

\* C12: finishStream on a stream that is already finished returns false and
\* leaves the record as it was, and begins no pass over pendingImages.
C12_FinishOnFinishedIsNoOp ==
    [][(/\ log'.op = "finish"
        /\ Present(streams, log'.id)
        /\ streams[log'.id].finished)
       => (/\ log'.rejected
           /\ streams' = streams
           /\ finishCalls' = finishCalls
           /\ log'.passes = log.passes)]_vars

C12_Witness ==
    /\ log.op = "finish"
    /\ log.rejected
    /\ Present(streams, log.id)
    /\ streams[log.id].finished
    /\ streams[log.id].pendingImages # <<>>
    /\ log.passes[log.id] = 1

\* C13: once a stream is finished its msgItem list never changes again,
\* neither by a later update or finish nor by a finish call that was in
\* progress when the stream became finished.
C13_ItemsFrozenOnceFinished ==
    [][\A id \in StreamIds :
          (Present(streams, id) /\ streams[id].finished /\ Present(streams', id))
              => streams'[id].msgItem = streams[id].msgItem]_vars


\* ======================================================================
\* SpecHB: one stream with its heartbeat on a clock.  A due tick runs before
\* the clock moves on; the reply path, the processor's end and the poll
\* handler's deletion act on the stream at any time.
\* ======================================================================
ClockStep == HeartbeatInterval \div 3
MaxClock == MaxTimeout + 3 * HeartbeatInterval

TimeoutNotice == Str("TIMEOUT", 1)
ReplyText == Str("R1", 1)

\* String.prototype.includes for a one-run needle
Includes(content, text) ==
    \E i \in 1..Len(content) : content[i][1] = text[1][1] /\ content[i][2] >= text[1][2]

\* appendToStream inside deliverWecomReply
appendToStream(ss, id, text) ==
    IF ~Present(ss, id) THEN ss
    ELSE IF Includes(ss[id].content, text) THEN ss
    ELSE appendStream(ss, id,
                      Concat(IF ss[id].content # <<>> THEN Str("NL", 2) ELSE <<>>, text))

\* the registry part of the onTimeout callback given to heartbeatManager.start
onTimeoutStream(ss, id) == finishStreamSync(updateStream(ss, id, TimeoutNotice, TRUE, <<>>), id)

\* reply text that quotes a thinking phrase and the hourglass
QuotedText == << <<"TH0", 1>>, <<"R1", 1>>, <<"HG", 1>> >>

\* the strings _tick generates
IsPlaceholder(content) ==
    \E i \in 0..3, d \in 0..3 : content = HeartbeatContent(i * PhrasePeriod, d)

HLogInit == [last |-> "init", startedAt |-> 0, timeouts |-> 0, timeoutAt |-> 0,
             undisturbed |-> TRUE, appended |-> FALSE, realSet |-> FALSE]

HInit ==
    /\ now = 0
    /\ InitRegistry
    /\ InitHeartbeats
    /\ InitQueues
    /\ InitJobs(StreamIds)
    /\ nextId = 0
    /\ log = HLogInit

HUnused == <<finishCalls, queues, cleanupTimers, proc, keyOf, activeStreams,
             deleteTimers, msgIdOf>>

TickDue(hb) == \E id \in StreamIds : hbHas(hb, id) /\ hb[id].nextFire <= now

\* the message branch of the HTTP handler: createStream, then heartbeat start
HOpen ==
    /\ nextId = 0
    /\ now < HeartbeatInterval
    /\ nextId' = 1
    /\ streams' = createStream(streams, 1)
    /\ heartbeats' = hbStart(heartbeats, 1)
    /\ log' = [log EXCEPT !.last = "open", !.startedAt = now]
    /\ UNCHANGED now
    /\ UNCHANGED HUnused

HAdvance ==
    /\ now < MaxClock
    /\ ~TickDue(heartbeats)
    /\ now' = now + ClockStep
    /\ log' = [log EXCEPT !.last = "advance"]
    /\ UNCHANGED <<streams, heartbeats, nextId>>
    /\ UNCHANGED HUnused

HTick ==
    /\ hbHas(heartbeats, 1)
    /\ heartbeats[1].nextFire <= now
    /\ LET r == hbTick(heartbeats, streams, 1)
       IN /\ heartbeats' = r.hb
          /\ streams' = IF r.timeout THEN onTimeoutStream(r.ss, 1) ELSE r.ss
          /\ log' = [log EXCEPT !.last = "tick",
                                !.timeouts = IF r.timeout THEN @ + 1 ELSE @,
                                !.timeoutAt = IF r.timeout THEN now ELSE @]
    /\ UNCHANGED <<now, nextId>>
    /\ UNCHANGED HUnused

\* the "queued" branch of scheduleMessageProcessing, right after the enqueue
HWaiting ==
    /\ hbHas(heartbeats, 1)
    /\ now = heartbeats[1].startTime
    /\ log.last = "open"
    /\ streams' = updateStream(streams, 1, Str("WAITN", 1), FALSE, <<>>)
    /\ log' = [log EXCEPT !.last = "waiting", !.undisturbed = FALSE, !.realSet = TRUE]
    /\ UNCHANGED <<now, heartbeats, nextId>>
    /\ UNCHANGED HUnused

\* a producer replaces the content: streamManager.updateStream(id, text, false)
HUpdate ==
    /\ hbHas(heartbeats, 1)
    /\ now = heartbeats[1].startTime
    /\ log.last = "open"
    /\ streams' = updateStream(streams, 1, QuotedText, FALSE, <<>>)
    /\ log' = [log EXCEPT !.last = "update", !.undisturbed = FALSE, !.realSet = TRUE]
    /\ UNCHANGED <<now, heartbeats, nextId>>
    /\ UNCHANGED HUnused

\* deliverWecomReply(streamId) with text
HDeliver ==
    /\ nextId = 1
    /\ log.timeouts = 0 \/ Present(streams, 1)
    /\ streams' = appendToStream(streams, 1, ReplyText)
    /\ log' = [log EXCEPT !.last = "deliver", !.undisturbed = FALSE,
                          !.appended = @ \/ (Present(streams, 1) /\ ~streams[1].finished
                                             /\ streams' # streams)]
    /\ UNCHANGED <<now, heartbeats, nextId>>
    /\ UNCHANGED HUnused

\* finishStream at the end of processInboundMessage (no attachment pending)
HFinish ==
    /\ nextId = 1
    /\ Present(streams, 1)
    /\ streams' = finishStreamSync(streams, 1)
    /\ log' = [log EXCEPT !.last = "finish", !.undisturbed = FALSE]
    /\ UNCHANGED <<now, heartbeats, nextId>>
    /\ UNCHANGED HUnused

\* heartbeatManager.stop in the processor's finally
HStop ==
    /\ nextId = 1
    /\ heartbeats' = hbStop(heartbeats, 1)
    /\ log' = [log EXCEPT !.last = "stop", !.undisturbed = FALSE]
    /\ UNCHANGED <<now, streams, nextId>>
    /\ UNCHANGED HUnused

\* the deletion the poll handler schedules for a finished stream
HDelete ==
    /\ Present(streams, 1)
    /\ streams[1].finished
    /\ streams' = deleteStream(streams, 1)
    /\ log' = [log EXCEPT !.last = "delete", !.undisturbed = FALSE]
    /\ UNCHANGED <<now, heartbeats, nextId>>
    /\ UNCHANGED HUnused

HNext ==
    \/ HOpen
    \/ HAdvance
    \/ HTick
    \/ HWaiting
    \/ HUpdate
    \/ HDeliver
    \/ HFinish
    \/ HStop
    \/ HDelete

SpecHB == HInit /\ [][HNext]_vars

\* C2: once reply text has been appended to an unfinished stream, no later
\* heartbeat tick removes it: the content still contains the text after the tick.
C2_TickKeepsAppendedText ==
    [][(/\ log'.last = "tick"
        /\ streams' # streams
        /\ log.appended
        /\ Present(streams, 1)
        /\ Includes(streams[1].content, ReplyText))
       => (Present(streams', 1) /\ Includes(streams'[1].content, ReplyText))]_vars

\* C7: a heartbeat that is never stopped, on a stream that stays present and
\* unfinished and gets no real content, calls onTimeout exactly once, between
\* 57 s and 63 s after its start, and has(id) is false from then on.
C7_TimeoutOnceInWindow ==
    /\ log.timeouts <= 1
    /\ log.timeouts = 1 => ~hbHas(heartbeats, 1)
    /\ (log.undisturbed /\ log.timeouts = 1)
          => (/\ log.timeoutAt - log.startedAt >= MaxTimeout - HeartbeatInterval
              /\ log.timeoutAt - log.startedAt <= MaxTimeout + HeartbeatInterval)
    /\ (log.undisturbed /\ nextId = 1 /\ now - log.startedAt > MaxTimeout + HeartbeatInterval)
          => log.timeouts = 1

\* C19: once update has set a stream's content to a non-empty string that is
\* not a heartbeat placeholder, no later tick of that heartbeat run writes
\* placeholder text to the stream.
C19_NoPlaceholderAfterRealContent ==
    [][(log'.last = "tick" /\ log.realSet /\ streams' # streams)
       => ~(Present(streams', 1) /\ IsPlaceholder(streams'[1].content))]_vars

C7_Witness ==
    /\ log.undisturbed
    /\ log.timeouts = 1
    /\ log.startedAt > 0
    /\ now - log.startedAt > MaxTimeout + HeartbeatInterval
    /\ ~hbHas(heartbeats, 1)
    /\ Present(streams, 1) /\ streams[1].content = TimeoutNotice


\* ======================================================================
\* Spec: the plugin as a whole.  Message POSTs create a stream, start its
\* heartbeat and enqueue its processor; processors preprocess, dispatch,
\* deliver and complete; heartbeat, deletion and reclamation timers fire
\* when due, before the clock moves on.
\* ======================================================================
MsgIds == {"m1", "m2"}
PollDeleteDelay == 30000
MaxTime == MaxTimeout + 2 * HeartbeatInterval
ArrivalPeriod == MaxTimeout

\* the instants at which requests arrive and the agent runtime responds
EnvInstant == now % ArrivalPeriod = 0

ErrorNotice == Str("ERR", 1)
QueueFullNotice == Str("QFULL", 1)
WaitingMessage(position) == IF position = 1 THEN Str("WAIT1", 1) ELSE Str("WAITN", 1)

\* new WecomWebhook(...): the handler builds one per request, and with it a
\* new MessageDeduplicator whose seen-cache is empty
WecomWebhookNew == [seen |-> {}]

\* MessageDeduplicator.isDuplicate on that instance
isDuplicate(wh, msgId) == msgId \in wh.seen

\* what the properties below observe of a run; no action reads it
ALogInit == [fresh |-> [k \in Keys |-> FALSE],   \* a deadline reset the key and no
                                                 \* POST for it has arrived since
             timedOut |-> {},                    \* streams whose deadline fired
             rescued |-> {}]                     \* jobs a POST started on a fresh key

AInit ==
    /\ now = 0
    /\ InitRegistry
    /\ InitHeartbeats
    /\ InitQueues
    /\ InitJobs(StreamIds)
    /\ nextId = 0
    /\ log = ALogInit

\* the jobs whose key a queue entry, a running processor or a heartbeat's
\* onTimeout closure still holds
AHeld(qs, pr, hb, j) == Held(qs, pr, j) \/ hbHas(hb, j)

Release(qs, pr, hb, ks) ==
    [j \in DOMAIN ks |-> IF AHeld(qs, pr, hb, j) THEN ks[j] ELSE NoKey]

TimerDue ==
    \/ TickDue(heartbeats)
    \/ \E i \in 1..Len(deleteTimers) : deleteTimers[i].due <= now
    \/ \E i \in 1..Len(cleanupTimers) : cleanupTimers[i].due <= now

\* the queueFull branch without stopHeartbeat()
AcceptKeepsHeartbeat(k, m, max) ==
    /\ nextId < max
    /\ LET j == nextId + 1
           ss1 == createStream(streams, j)
           hb1 == hbStart(heartbeats, j)
           r == enqueue(queues, k, j)
           ss2 == IF r.queueFull
                  THEN finishStreamSync(updateStream(ss1, j, QueueFullNotice, TRUE, <<>>), j)
                  ELSE IF r.queued
                  THEN updateStream(ss1, j, WaitingMessage(r.position), FALSE, <<>>)
                  ELSE ss1
           hb2 == hb1
           pr2 == IF r.start # None THEN [proc EXCEPT ![j] = "pre"] ELSE proc
       IN /\ nextId' = j
          /\ streams' = ss2
          /\ heartbeats' = hb2
          /\ queues' = r.queues
          /\ proc' = pr2
          /\ msgIdOf' = [msgIdOf EXCEPT ![j] = m]
          /\ activeStreams' = IF r.start # None THEN [activeStreams EXCEPT ![k] = j]
                              ELSE IF r.queueFull THEN [activeStreams EXCEPT ![k] = None]
                              ELSE activeStreams
          /\ keyOf' = Release(r.queues, pr2, hb2, [keyOf EXCEPT ![j] = k])
    /\ UNCHANGED <<now, finishCalls, cleanupTimers, deleteTimers>>

\* wecomHttpHandler, POST with a message: handleMessage on a new webhook,
\* createStream, the stream reply, then scheduleMessageProcessing up to the
\* first real suspension of the processor it may start; max bounds the number of messages
Accept(k, m, max) ==
    /\ nextId < max
    /\ LET j == nextId + 1
           ss1 == createStream(streams, j)
           hb1 == hbStart(heartbeats, j)
           r == enqueue(queues, k, j)
           ss2 == IF r.queueFull
                  THEN finishStreamSync(updateStream(ss1, j, QueueFullNotice, TRUE, <<>>), j)
                  ELSE IF r.queued
                  THEN updateStream(ss1, j, WaitingMessage(r.position), FALSE, <<>>)
                  ELSE ss1
           hb2 == IF r.queueFull THEN hbStop(hb1, j) ELSE hb1
           pr2 == IF r.start # None THEN [proc EXCEPT ![j] = "pre"] ELSE proc
       IN /\ nextId' = j
          /\ streams' = ss2
          /\ heartbeats' = hb2
          /\ queues' = r.queues
          /\ proc' = pr2
          /\ msgIdOf' = [msgIdOf EXCEPT ![j] = m]
          /\ activeStreams' = IF r.start # None THEN [activeStreams EXCEPT ![k] = j]
                              ELSE IF r.queueFull THEN [activeStreams EXCEPT ![k] = None]
                              ELSE activeStreams
          /\ keyOf' = Release(r.queues, pr2, hb2, [keyOf EXCEPT ![j] = k])
    /\ UNCHANGED <<now, finishCalls, cleanupTimers, deleteTimers>>

PostEffects(k, m) == Accept(k, m, MaxStreams)

Post(k, m) ==
    /\ EnvInstant
    /\ ~isDuplicate(WecomWebhookNew, m)
    /\ PostEffects(k, m)
    /\ log' = [log EXCEPT !.fresh[k] = FALSE,
                          !.rescued = IF log.fresh[k] /\ ~isProcessing(queues, k)
                                      THEN @ \cup {nextId + 1} ELSE @]

\* the processor without its finally block: the heartbeat is left running
SettleKeepsHeartbeat(j, ss, act) ==
    LET k == keyOf[j]
        hb1 == heartbeats
        r == processNext(queues, k)
        pr1 == [i \in DOMAIN proc |-> IF i = j THEN "none"
                                      ELSE IF i = r.start THEN "pre" ELSE proc[i]]
    IN /\ streams' = ss
       /\ heartbeats' = hb1
       /\ queues' = r.queues
       /\ proc' = pr1
       /\ cleanupTimers' = IF r.timer # NoTimer THEN Append(cleanupTimers, r.timer)
                           ELSE cleanupTimers
       /\ activeStreams' = IF r.start # None THEN [act EXCEPT ![k] = r.start] ELSE act
       /\ keyOf' = Release(r.queues, pr1, hb1, keyOf)
       /\ UNCHANGED <<now, finishCalls, deleteTimers, nextId, msgIdOf, log>>

\* _processMessage's finally: heartbeat stop was the processor's own finally;
\* then _processNext, which may start the next processor up to its first
\* suspension (activeStreams.set)
Settle(j, ss, act) ==
    LET k == keyOf[j]
        hb1 == hbStop(heartbeats, j)
        r == processNext(queues, k)
        pr1 == [i \in DOMAIN proc |-> IF i = j THEN "none"
                                      ELSE IF i = r.start THEN "pre" ELSE proc[i]]
    IN /\ streams' = ss
       /\ heartbeats' = hb1
       /\ queues' = r.queues
       /\ proc' = pr1
       /\ cleanupTimers' = IF r.timer # NoTimer THEN Append(cleanupTimers, r.timer)
                           ELSE cleanupTimers
       /\ activeStreams' = IF r.start # None THEN [act EXCEPT ![k] = r.start] ELSE act
       /\ keyOf' = Release(r.queues, pr1, hb1, keyOf)
       /\ UNCHANGED <<now, finishCalls, deleteTimers, nextId, msgIdOf, log>>

\* preprocessMessage settles
PPreprocessed(j, ok) ==
    /\ proc[j] = "pre"
    /\ EnvInstant
    /\ IF ok
       THEN /\ proc' = [proc EXCEPT ![j] = "dispatch"]
            /\ UNCHANGED <<now, streams, finishCalls, heartbeats, queues, cleanupTimers,
                           keyOf, activeStreams, deleteTimers, nextId, msgIdOf, log>>
       ELSE Settle(j, finishStreamSync(updateStream(streams, j, ErrorNotice, TRUE, <<>>), j),
                   activeStreams)

\* the dispatcher calls deliver(payload, {kind})
PDeliver(j, kind) ==
    /\ proc[j] = "dispatch"
    /\ EnvInstant
    /\ kind \in {"block", "final"}
    /\ LET ss1 == appendToStream(streams, j, ReplyText)
       IN streams' = IF kind = "final" THEN finishStreamSync(ss1, j) ELSE ss1
    /\ UNCHANGED <<now, finishCalls, heartbeats, queues, cleanupTimers, proc, keyOf,
                   activeStreams, deleteTimers, nextId, msgIdOf, log>>

\* the dispatch returns: finishStream, activeStreams.delete, then the finally blocks
PComplete(j) ==
    /\ proc[j] = "dispatch"
    /\ EnvInstant
    /\ Settle(j, finishStreamSync(streams, j), [activeStreams EXCEPT ![keyOf[j]] = None])

\* the heartbeat timer of stream j fires; at the deadline _tick calls onTimeout
Tick(j) ==
    /\ hbHas(heartbeats, j)
    /\ heartbeats[j].nextFire <= now
    /\ \A i \in 1..(j - 1) : ~(hbHas(heartbeats, i) /\ heartbeats[i].nextFire <= now)
    /\ LET r == hbTick(heartbeats, streams, j)
           k == keyOf[j]
           qs1 == IF r.timeout THEN reset(queues, k) ELSE queues
       IN /\ heartbeats' = r.hb
          /\ streams' = IF r.timeout THEN onTimeoutStream(r.ss, j) ELSE r.ss
          /\ queues' = qs1
          /\ activeStreams' = IF r.timeout THEN [activeStreams EXCEPT ![k] = None]
                              ELSE activeStreams
          /\ keyOf' = Release(qs1, proc, r.hb, keyOf)
          /\ log' = IF r.timeout
                    THEN [log EXCEPT !.fresh[k] = TRUE, !.timedOut = @ \cup {j}]
                    ELSE log
    /\ UNCHANGED <<now, finishCalls, cleanupTimers, proc, deleteTimers, nextId, msgIdOf>>

\* wecomHttpHandler, POST with a stream refresh: a finished stream gets its
\* deletion scheduled (the earliest timer for a stream is the one that acts)
Poll(j) ==
    /\ j <= nextId
    /\ EnvInstant
    /\ Present(streams, j)
    /\ streams[j].finished
    /\ \A i \in 1..Len(deleteTimers) : deleteTimers[i].id # j
    /\ deleteTimers' = Append(deleteTimers, [id |-> j, due |-> now + PollDeleteDelay])
    /\ UNCHANGED <<now, streams, finishCalls, heartbeats, queues, cleanupTimers, proc,
                   keyOf, activeStreams, nextId, msgIdOf, log>>

DeleteFire ==
    /\ deleteTimers # <<>>
    /\ Head(deleteTimers).due <= now
    /\ streams' = deleteStream(streams, Head(deleteTimers).id)
    /\ deleteTimers' = Tail(deleteTimers)
    /\ UNCHANGED <<now, finishCalls, heartbeats, queues, cleanupTimers, proc, keyOf,
                   activeStreams, nextId, msgIdOf, log>>

CleanupFire ==
    /\ cleanupTimers # <<>>
    /\ Head(cleanupTimers).due <= now
    /\ queues' = cleanupFire(queues, Head(cleanupTimers))
    /\ cleanupTimers' = Tail(cleanupTimers)
    /\ UNCHANGED <<now, streams, finishCalls, heartbeats, proc, keyOf, activeStreams,
                   deleteTimers, nextId, msgIdOf, log>>

Advance ==
    /\ now < MaxTime
    /\ ~TimerDue
    /\ now' = now + HeartbeatInterval
    /\ UNCHANGED <<streams, finishCalls, heartbeats, queues, cleanupTimers, proc, keyOf,
                   activeStreams, deleteTimers, nextId, msgIdOf, log>>

\* message ids are interchangeable: a POST carries one that occurred before
\* or the first one that did not; all POSTs come from one conversation
UsedMsgIds == {"m1"} \cup (IF nextId > 0 THEN MsgIds ELSE {})

Next ==
    \/ \E m \in UsedMsgIds : Post("userA", m)
    \/ \E j \in StreamIds : PPreprocessed(j, TRUE)
    \/ \E j \in StreamIds : PPreprocessed(j, FALSE)
    \/ \E j \in StreamIds : PDeliver(j, "block")
    \/ \E j \in StreamIds : PDeliver(j, "final")
    \/ \E j \in StreamIds : PComplete(j)
    \/ \E j \in StreamIds : Tick(j)
    \/ \E j \in StreamIds : Poll(j)
    \/ DeleteFire
    \/ CleanupFire
    \/ Advance

Spec == AInit /\ [][Next]_vars

\* ======================================================================
\* SpecOverflow: a burst of message POSTs from one conversation, long enough
\* to fill the backlog and overflow it, with processors that preprocess
\* and complete.  No timer fires during the burst.
\* ======================================================================
OInit ==
    /\ now = 0
    /\ streams = [i \in JobIds |-> NoStream]
    /\ finishCalls = <<>>
    /\ heartbeats = [i \in JobIds |-> NoHb]
    /\ InitQueues
    /\ InitJobs(JobIds)
    /\ nextId = 0
    /\ log = {}                      \* the messages enqueue answered queueFull

OPost ==
    /\ Accept("userA", "m1", MaxBurst)
    /\ log' = IF enqueue(queues, "userA", nextId + 1).queueFull
              THEN log \cup {nextId + 1} ELSE log

ONext ==
    \/ OPost
    \/ \E j \in JobIds : PPreprocessed(j, TRUE)
    \/ \E j \in JobIds : PComplete(j)

SpecOverflow == OInit /\ [][ONext]_vars

\* C24: a message that enqueue answers queueFull gets its stream finished
\* with the queue-full notice as content and its heartbeat stopped, in the
\* step that accepted it; the key's executing job and backlog are unchanged
\* by that step; and the message's processor is never invoked.
C24_QueueFullOutcome ==
    /\ [][(EnqueueStep /\ isProcessing(queues, "userA")
            /\ getQueueLength(queues, "userA") >= MaxQueueSize)
          => LET j == nextId'
             IN /\ j \in log'
                /\ Present(streams', j)
                /\ streams'[j].finished
                /\ streams'[j].content = QueueFullNotice
                /\ ~hbHas(heartbeats', j)
                /\ queues' = queues
                /\ proc' = proc]_vars
    /\ [](\A j \in log : /\ proc[j] = "none"
                          /\ ~InBacklog(j)
                          /\ ~hbHas(heartbeats, j)
                          /\ Present(streams, j)
                          /\ streams[j].finished
                          /\ streams[j].content = QueueFullNotice)

\* the seventh message was answered queueFull while job 1 executes with five
\* jobs waiting, and later the backlog has moved on
C24_Witness ==
    /\ log # {}
    /\ proc[1] = "none"
    /\ \E j \in JobIds : proc[j] = "dispatch" /\ j > 1
    /\ \A j \in log : streams[j].content = QueueFullNotice /\ ~hbHas(heartbeats, j)


\* C5: two POST deliveries carrying the same message id (all within the five
\* minutes of the seen-cache) never both create a stream, heartbeat and job:
\* no two streams were created for one message id.
C5_DuplicateCreatesNothing ==
    \A i, j \in StreamIds :
        (i # j /\ msgIdOf[i] # NoMsgId) => msgIdOf[j] # msgIdOf[i]

\* C6: once the deadline has finalized a stream, a write by its still running
\* processor (a delivered chunk, or finish) leaves the stream's content,
\* finished flag and attachment list as they were.
C6_LateWritesAreNoOps ==
    [][\A j \in StreamIds :
          (/\ j \in log.timedOut
           /\ proc[j] = "dispatch"
           /\ Present(streams, j)
           /\ Present(streams', j))
          => (/\ streams'[j].content = streams[j].content
              /\ streams'[j].finished = streams[j].finished
              /\ streams'[j].msgItem = streams[j].msgItem)]_vars

\* C8: when the deadline fires for a stream, the stream is finished with the
\* timeout notice as content and the conversation key is reset; the next
\* POST for that key is not queued and its processor starts immediately.
C8_TimeoutUnblocksKey ==
    /\ [][\A j \in StreamIds :
            (j \notin log.timedOut /\ j \in log'.timedOut)
            => (/\ Present(streams', j)
                /\ streams'[j].finished
                /\ streams'[j].content = TimeoutNotice
                /\ ~isProcessing(queues', keyOf[j])
                /\ getQueueLength(queues', keyOf[j]) = 0)]_vars
    /\ [][\A k \in Keys :
            (nextId' = nextId + 1 /\ keyOf'[nextId'] = k /\ log.fresh[k])
            => (/\ proc'[nextId'] = "pre"
                /\ getCurrentStreamId(queues', k) = nextId'
                /\ getQueueLength(queues', k) = 0)]_vars

C8_Witness ==
    \E j \in log.timedOut, j2 \in log.rescued :
        /\ proc[j] # "none"
        /\ proc[j2] = "pre"
        /\ keyOf[j] = keyOf[j2]
        /\ Present(streams, j)
        /\ streams[j].finished
        /\ streams[j].content = TimeoutNotice


\* ======================================================================
\* SpecWaiting: a conversation sends a few messages at once while the first
\* is being processed; the later ones wait in the backlog with their
\* heartbeats ticking until they are started, discarded or timed out.
\* ======================================================================
MaxWaiting == 3

WaitInit ==
    /\ now = 0
    /\ streams = [i \in JobIds |-> NoStream]
    /\ finishCalls = <<>>
    /\ heartbeats = [i \in JobIds |-> NoHb]
    /\ InitQueues
    /\ InitJobs(JobIds)
    /\ nextId = 0
    /\ log = ALogInit

WaitPost ==
    /\ now = 0
    /\ Accept("userA", "m1", MaxWaiting)
    /\ UNCHANGED log

WaitNext ==
    \/ WaitPost
    \/ \E j \in JobIds : PPreprocessed(j, TRUE)
    \/ \E j \in JobIds : PComplete(j)
    \/ \E j \in JobIds : Tick(j)
    \/ Advance

SpecWaiting == WaitInit /\ [][WaitNext]_vars

\* ======================================================================
\* SpecTerminal: two messages of one conversation from arrival to the end
\* of their streams.  A processor completes, fails in preprocessing, throws
\* out of the dispatch, or never ends; heartbeat timers and the registry's
\* expiry sweep fire when due; the clock jumps to the next timer.  Messages
\* arrive during the first minute.  log.sweptAt is the time of the latest
\* sweep, which stands for the sweep interval's timer.
\* ======================================================================
SweepInterval == 60000
TermIds == {1, 2}
MaxTermTime == ArrivalPeriod + MaxTimeout + DefaultExpiry + SweepInterval

TermLogInit == [fresh |-> [k \in Keys |-> FALSE], timedOut |-> {}, rescued |-> {},
                sweptAt |-> 0]

TermInit ==
    /\ now = 0
    /\ InitRegistry
    /\ InitHeartbeats
    /\ InitQueues
    /\ InitJobs(StreamIds)
    /\ nextId = 0
    /\ log = TermLogInit

TermPost ==
    /\ now <= ArrivalPeriod
    /\ EnvInstant
    /\ Accept("userA", "m1", Cardinality(TermIds))
    /\ UNCHANGED log

\* the dispatch rejects: processInboundMessage throws past its last
\* finishStream, and the finally blocks run
PThrow(j) ==
    /\ proc[j] = "dispatch"
    /\ EnvInstant
    /\ Settle(j, streams, activeStreams)

SweepDue == nextId > 0 /\ now > 0 /\ now % SweepInterval = 0 /\ log.sweptAt < now

\* the interval startCleanup armed fires
TermSweep ==
    /\ SweepDue
    /\ streams' = cleanup(streams, 0)
    /\ log' = [log EXCEPT !.sweptAt = now]
    /\ UNCHANGED <<now, finishCalls, heartbeats, queues, cleanupTimers, proc, keyOf,
                   activeStreams, deleteTimers, nextId, msgIdOf>>

\* the time of the next timer or arrival instant after now
NextInstant ==
    LET minute == (now \div SweepInterval + 1) * SweepInterval
        fires == {heartbeats[j].nextFire : j \in {i \in StreamIds : hbHas(heartbeats, i)}}
    IN IF fires = {} THEN minute
       ELSE Min(minute, CHOOSE t \in fires : \A u \in fires : t <= u)

TermAdvance ==
    /\ now < MaxTermTime
    /\ ~TickDue(heartbeats)
    /\ ~SweepDue
    /\ now' = NextInstant
    /\ UNCHANGED <<streams, finishCalls, heartbeats, queues, cleanupTimers, proc, keyOf,
                   activeStreams, deleteTimers, nextId, msgIdOf, log>>

TermTimers == (\E j \in TermIds : Tick(j)) \/ TermSweep \/ TermAdvance

TermNext ==
    \/ TermPost
    \/ \E j \in TermIds : PPreprocessed(j, TRUE)
    \/ \E j \in TermIds : PPreprocessed(j, FALSE)
    \/ \E j \in TermIds : PDeliver(j, "block")
    \/ \E j \in TermIds : PComplete(j)
    \/ \E j \in TermIds : PThrow(j)
    \/ \E j \in TermIds : Tick(j)
    \/ TermSweep
    \/ TermAdvance

\* timers fire and time passes; nothing is assumed of the processors
SpecTerminal == TermInit /\ [][TermNext]_vars /\ WF_vars(TermTimers)

\* ======================================================================
\* SpecHttp: the HTTP handler on every kind of request, well-formed or not.
\* Processors it starts stay suspended; time stands still.
\* ======================================================================
Kinds == {"text", "image", "voice", "stream", "event", "mixed", "unknown"}
MessageKinds == {"text", "image", "voice"}

\* a request, by what the handler can tell about it
Request(method, params, body, sig, cipher, inner, kind, enter, msgId, stream) ==
    [method |-> method,
     params |-> params,     \* msg_signature, timestamp, nonce (GET: echostr) given
     body |-> body,         \* outer body: "json", "notjson" or "noencrypt"
     sig |-> sig,           \* signature matches
     cipher |-> cipher,     \* ciphertext decrypts
     inner |-> inner,       \* decrypted text parses as JSON
     kind |-> kind,
     enter |-> enter,       \* event_type = enter_chat
     msgId |-> msgId,
     stream |-> stream]

WellFormed(kind, enter, msgId, stream) ==
    Request("POST", TRUE, "json", TRUE, TRUE, TRUE, kind, enter, msgId, stream)

\* verification requests, POSTs of a text message with any combination of
\* defects, and well-formed POSTs of every kind
Requests ==
    {Request("GET", p, "json", s, c, TRUE, "text", FALSE, "m1", 1) :
        p \in BOOLEAN, s \in BOOLEAN, c \in BOOLEAN}
    \cup UNION {{Request("POST", p, b, s, c, i, "text", FALSE, "m1", 1) :
                    p \in BOOLEAN, s \in BOOLEAN, c \in BOOLEAN, i \in BOOLEAN} :
                b \in {"json", "notjson", "noencrypt"}}
    \cup {WellFormed(k, FALSE, m, 1) : k \in MessageKinds, m \in MsgIds}
    \cup {WellFormed("stream", FALSE, "m1", id) : id \in StreamIds}
    \cup {WellFormed("event", e, "m1", 1) : e \in BOOLEAN}
    \cup {WellFormed(k, FALSE, "m1", 1) : k \in {"mixed", "unknown"}}

NullResult(decrypted) == [out |-> "null", decrypt |-> decrypted]

\* WecomWebhook.handleVerify: the echo or null, and whether decrypt was called
handleVerify(q) ==
    IF ~q.params THEN NullResult(FALSE)
    ELSE IF ~q.sig THEN NullResult(FALSE)
    ELSE IF ~q.cipher THEN NullResult(TRUE)
    ELSE [out |-> "echo", decrypt |-> TRUE]

\* handleMessage decrypting before it compares the signature
handleMessageDecryptFirst(wh, q) ==
    IF ~q.params THEN NullResult(FALSE)
    ELSE IF q.body = "notjson" THEN NullResult(FALSE)
    ELSE IF q.body = "noencrypt" THEN NullResult(FALSE)
    ELSE IF ~q.cipher THEN NullResult(TRUE)
    ELSE IF ~q.sig THEN NullResult(TRUE)
    ELSE IF ~q.inner THEN NullResult(TRUE)
    ELSE IF q.kind \in MessageKinds
    THEN IF isDuplicate(wh, q.msgId) THEN NullResult(TRUE)
         ELSE [out |-> "message", decrypt |-> TRUE]
    ELSE IF q.kind = "stream" THEN [out |-> "stream", decrypt |-> TRUE]
    ELSE IF q.kind = "event" THEN [out |-> "event", decrypt |-> TRUE]
    ELSE NullResult(TRUE)

\* WecomWebhook.handleMessage: what it returns, and whether decrypt was called
handleMessage(wh, q) ==
    IF ~q.params THEN NullResult(FALSE)
    ELSE IF q.body = "notjson" THEN NullResult(FALSE)
    ELSE IF q.body = "noencrypt" THEN NullResult(FALSE)
    ELSE IF ~q.sig THEN NullResult(FALSE)
    ELSE IF ~q.cipher THEN NullResult(TRUE)
    ELSE IF ~q.inner THEN NullResult(TRUE)
    ELSE IF q.kind \in MessageKinds
    THEN IF isDuplicate(wh, q.msgId) THEN NullResult(TRUE)
         ELSE [out |-> "message", decrypt |-> TRUE]
    ELSE IF q.kind = "stream" THEN [out |-> "stream", decrypt |-> TRUE]
    ELSE IF q.kind = "event" THEN [out |-> "event", decrypt |-> TRUE]
    ELSE NullResult(TRUE)

ExpiredNotice == Str("EXPIRED", 1)
WelcomeMessage == Str("WELCOME", 1)
NoItems == <<>>

\* the stream object buildStreamResponse puts in the reply
StreamReply(id, content, finish, items) ==
    [id |-> id, content |-> content, finish |-> finish, items |-> items]
NoReply == [absent |-> TRUE]

\* the stream-refresh reply that leaves a missing stream unfinished
pollReplyMissingUnfinished(ss, id) ==
    IF ~Present(ss, id) THEN StreamReply(id, <<>>, FALSE, NoItems)
    ELSE StreamReply(id, ss[id].content, ss[id].finished,
                     IF ss[id].finished /\ Len(ss[id].msgItem) > 0
                     THEN ss[id].msgItem ELSE NoItems)

\* the stream-refresh branch: the reply for stream id
pollReply(ss, id) ==
    IF ~Present(ss, id) THEN StreamReply(id, ExpiredNotice, TRUE, NoItems)
    ELSE StreamReply(id, ss[id].content, ss[id].finished,
                     IF ss[id].finished /\ Len(ss[id].msgItem) > 0
                     THEN ss[id].msgItem ELSE NoItems)

\* the message branch with the reply sent only after the job was enqueued
messageEventsReplyLast(r) ==
    <<"createStream", "heartbeatStart", "enqueue">>
        \o (IF r.start # None THEN <<"processorStart">> ELSE <<>>)
        \o <<"reply">>

\* the message branch and scheduleMessageProcessing, call by call, for the
\* enqueue result r
messageEvents(r) ==
    <<"createStream", "reply", "heartbeatStart", "enqueue">>
        \o (IF r.start # None THEN <<"processorStart">> ELSE <<>>)
        \o (IF r.queueFull THEN <<"updateStream", "finishStream", "heartbeatStop">>
            ELSE IF r.queued THEN <<"updateStream">> ELSE <<>>)

\* What the properties below observe of a request; no action reads it.
WLog(q, status, decrypted, reply, events) ==
    [req |-> q, status |-> status, decrypt |-> decrypted, reply |-> reply,
     events |-> events]

WAnyRequest == Request("GET", FALSE, "json", FALSE, FALSE, TRUE, "text", FALSE, "m1", 1)
WLogInit == WLog(WAnyRequest, 0, FALSE, NoReply, <<>>)

WInit ==
    /\ now = 0
    /\ InitRegistry
    /\ InitHeartbeats
    /\ InitQueues
    /\ InitJobs(StreamIds)
    /\ nextId = 0
    /\ log = WLogInit

WAllButLog == <<now, streams, finishCalls, heartbeats, queues, cleanupTimers, proc,
                keyOf, activeStreams, deleteTimers, nextId, msgIdOf>>

\* GET: URL verification
HttpGet(q) ==
    /\ q.method = "GET"
    /\ LET r == handleVerify(q)
       IN log' = WLog(q, IF r.out = "echo" THEN 200 ELSE 403, r.decrypt, NoReply, <<>>)
    /\ UNCHANGED WAllButLog

\* POST for which handleMessage returns null
HttpRejected(q) ==
    /\ q.method = "POST"
    /\ LET r == handleMessage(WecomWebhookNew, q)
       IN /\ r.out = "null"
          /\ log' = WLog(q, 400, r.decrypt, NoReply, <<>>)
    /\ UNCHANGED WAllButLog

\* POST with a text, image or voice message
HttpMessage(q) ==
    /\ q.method = "POST"
    /\ handleMessage(WecomWebhookNew, q).out = "message"
    /\ PostEffects("userA", q.msgId)
    /\ log' = WLog(q, 200, TRUE, StreamReply(nextId + 1, <<>>, FALSE, NoItems),
                   messageEvents(enqueue(queues, "userA", nextId + 1)))

\* POST with a stream refresh
HttpPoll(q) ==
    /\ q.method = "POST"
    /\ handleMessage(WecomWebhookNew, q).out = "stream"
    /\ log' = WLog(q, 200, TRUE, pollReply(streams, q.stream), <<>>)
    /\ deleteTimers' = IF Present(streams, q.stream) /\ streams[q.stream].finished
                          /\ \A i \in 1..Len(deleteTimers) : deleteTimers[i].id # q.stream
                       THEN Append(deleteTimers, [id |-> q.stream,
                                                  due |-> now + PollDeleteDelay])
                       ELSE deleteTimers
    /\ UNCHANGED <<now, streams, finishCalls, heartbeats, queues, cleanupTimers, proc,
                   keyOf, activeStreams, nextId, msgIdOf>>

\* POST with an event: enter_chat gets a finished welcome stream
HttpEvent(q) ==
    /\ q.method = "POST"
    /\ handleMessage(WecomWebhookNew, q).out = "event"
    /\ IF q.enter
       THEN /\ nextId < MaxStreams
            /\ LET j == nextId + 1
               IN /\ nextId' = j
                  /\ streams' = finishStreamSync(
                                    appendStream(createStream(streams, j), j, WelcomeMessage), j)
                  /\ log' = WLog(q, 200, TRUE,
                                 StreamReply(j, WelcomeMessage, TRUE, NoItems), <<>>)
            /\ UNCHANGED <<now, finishCalls, heartbeats, queues, cleanupTimers, proc,
                           keyOf, activeStreams, deleteTimers, msgIdOf>>
       ELSE /\ log' = WLog(q, 200, TRUE, NoReply, <<>>)
            /\ UNCHANGED WAllButLog

WNext ==
    \/ \E q \in Requests : HttpGet(q)
    \/ \E q \in Requests : HttpRejected(q)
    \/ \E q \in Requests : HttpMessage(q)
    \/ \E q \in Requests : HttpPoll(q)
    \/ \E q \in Requests : HttpEvent(q)

SpecHttp == WInit /\ [][WNext]_vars


\* In every step of SpecHttp the request handled is log'.req.
WellFormedPost(q) ==
    q.method = "POST" /\ q.params /\ q.body = "json" /\ q.sig /\ q.cipher /\ q.inner

\* C14: a POST whose decrypted message has an unrecognized kind is answered
\* with HTTP 200 and changes no stream, heartbeat or queue state.
C14_UnknownKindAcknowledged ==
    [][(WellFormedPost(log'.req) /\ log'.req.kind = "unknown")
       => (log'.status = 200 /\ UNCHANGED WAllButLog)]_vars

Defective(q) ==
    q.method = "POST" /\ (~q.sig \/ ~q.cipher \/ ~q.inner \/ q.body = "notjson")

\* C15: a POST with a signature mismatch, a decrypt failure or a JSON parse
\* failure gets a client-error status and creates no stream, heartbeat or job;
\* a request (GET or POST) whose signature does not match is never decrypted.
C15_DefectiveRequestsRejected ==
    /\ [][Defective(log'.req)
          => (log'.status \in 400..499 /\ UNCHANGED WAllButLog)]_vars
    /\ [][~log'.req.sig => (~log'.decrypt /\ log'.status \in 400..499)]_vars

C15_Witness ==
    /\ log.req.method = "POST"
    /\ log.req.params /\ log.req.body = "json"
    /\ ~log.req.sig /\ ~log.req.cipher
    /\ log.status = 400
    /\ ~log.decrypt
    /\ nextId > 0

Pos(events, e) == CHOOSE i \in 1..Len(events) : events[i] = e

PollStep == PollDeleteDelay \div 2
MaxPollTime == PollDeleteDelay + PollStep
Never == 0 - 1

\* What the properties below observe of a run; no action reads it.
LLogInit == [op |-> "none", id |-> None, reply |-> NoReply,
             finishedAt |-> Never,     \* when stream 1 became finished
             firstSeen |-> Never]      \* when a poll first reported it finished

LLog(op) == [log EXCEPT !.op = op, !.id = None, !.reply = NoReply]

\* stream 1 turning finished in this step is noted with the time
LNoteFinish(l, ss) ==
    IF l.finishedAt = Never /\ Present(ss, 1) /\ ss[1].finished
    THEN [l EXCEPT !.finishedAt = now] ELSE l

LInit ==
    /\ now = 0
    /\ InitRegistry
    /\ InitHeartbeats
    /\ InitQueues
    /\ InitJobs(StreamIds)
    /\ nextId = 0
    /\ log = LLogInit

LUnused == <<heartbeats, queues, cleanupTimers, proc, keyOf, activeStreams, msgIdOf>>

DeleteDue == \E i \in 1..Len(deleteTimers) : deleteTimers[i].due <= now

LCreate ==
    /\ nextId = 0
    /\ nextId' = 1
    /\ streams' = createStream(streams, 1)
    /\ log' = LLog("other")
    /\ UNCHANGED <<now, finishCalls, deleteTimers>>
    /\ UNCHANGED LUnused

\* a chunk delivered by the processor
LAppend ==
    /\ Present(streams, 1)
    /\ Growable(streams[1].content)
    /\ streams' = appendStream(streams, 1, ReplyText)
    /\ log' = LLog("other")
    /\ UNCHANGED <<now, finishCalls, deleteTimers, nextId>>
    /\ UNCHANGED LUnused

LQueueImage ==
    /\ Present(streams, 1)
    /\ Len(streams[1].pendingImages) < MaxPending
    /\ streams' = queueImage(streams, 1, "img1")
    /\ log' = LLog("other")
    /\ UNCHANGED <<now, finishCalls, deleteTimers, nextId>>
    /\ UNCHANGED LUnused

LFinish ==
    /\ nextId = 1
    /\ Len(finishCalls) < MaxFinishCalls
    /\ LET r == finishStreamBegin(streams, finishCalls, 1)
       IN /\ streams' = r.ss
          /\ finishCalls' = r.calls
          /\ log' = LNoteFinish(LLog("other"), r.ss)
    /\ UNCHANGED <<now, deleteTimers, nextId>>
    /\ UNCHANGED LUnused

LPrepared(i, ok) ==
    /\ i \in 1..Len(finishCalls)
    /\ LET r == prepareSettled(streams, finishCalls, i, ok)
       IN /\ streams' = r.ss
          /\ finishCalls' = r.calls
          /\ log' = LNoteFinish(LLog("other"), r.ss)
    /\ UNCHANGED <<now, deleteTimers, nextId>>
    /\ UNCHANGED LUnused

\* the stream-refresh branch of the HTTP handler; a timer armed for the same
\* stream and instant as an earlier one is the same timer
LPoll(id) ==
    /\ LET seesFinished == Present(streams, id) /\ streams[id].finished
           t == [id |-> id, due |-> now + PollDeleteDelay]
       IN /\ deleteTimers' = IF seesFinished
                                /\ \A i \in 1..Len(deleteTimers) : deleteTimers[i] # t
                             THEN Append(deleteTimers, t) ELSE deleteTimers
          /\ log' = [log EXCEPT !.op = "poll", !.id = id,
                                !.reply = pollReply(streams, id),
                                !.firstSeen = IF @ = Never /\ seesFinished /\ id = 1
                                              THEN now ELSE @]
    /\ UNCHANGED <<now, streams, finishCalls, nextId>>
    /\ UNCHANGED LUnused

LDeleteFire ==
    /\ deleteTimers # <<>>
    /\ Head(deleteTimers).due <= now
    /\ streams' = deleteStream(streams, Head(deleteTimers).id)
    /\ deleteTimers' = Tail(deleteTimers)
    /\ log' = LLog("other")
    /\ UNCHANGED <<now, finishCalls, nextId>>
    /\ UNCHANGED LUnused

LAdvance ==
    /\ now < MaxPollTime
    /\ ~DeleteDue
    /\ now' = now + PollStep
    /\ log' = LLog("other")
    /\ UNCHANGED <<streams, finishCalls, deleteTimers, nextId>>
    /\ UNCHANGED LUnused

LNext ==
    \/ LCreate
    \/ LAppend
    \/ LQueueImage
    \/ LFinish
    \/ \E i \in 1..MaxFinishCalls : LPrepared(i, TRUE)
    \/ \E i \in 1..MaxFinishCalls : LPrepared(i, FALSE)
    \/ \E id \in StreamIds : LPoll(id)
    \/ LDeleteFire
    \/ LAdvance

SpecPoll == LInit /\ [][LNext]_vars

PollStepOn(id) == log'.op = "poll" /\ log'.id = id
NotFound(r) == r.finish /\ r.content = ExpiredNotice

\* every poll that reports a stream finished arms its deletion 30,000 ms later
PollArmsDeletion ==
    [][\A id \in StreamIds :
          (PollStepOn(id) /\ Present(streams, id) /\ log'.reply.finish)
          => \E i \in 1..Len(deleteTimers') :
                 deleteTimers'[i] = [id |-> id, due |-> now + PollDeleteDelay]]_vars

\* until the earliest deletion is due, polls return the finished stream
PollSeesStreamInGrace ==
    [][(PollStepOn(1) /\ log.firstSeen # Never /\ now < log.firstSeen + PollDeleteDelay)
       => (/\ Present(streams, 1)
           /\ log'.reply.finish
           /\ log'.reply.content = streams[1].content)]_vars

\* once the earliest deletion has fired, polls get the not-found response
PollAfterGraceNotFound ==
    [][(PollStepOn(1) /\ log.firstSeen # Never /\ now > log.firstSeen + PollDeleteDelay)
       => NotFound(log'.reply)]_vars

MaxStarts == 3
MaxBeatTime == 3 * HeartbeatInterval

Callbacks == {"cbA", "cbB"}

\* the two streams whose heartbeats are followed
BeatIds == {1, 2}

NoTimerYet == 0

\* start without the test for an existing heartbeat
startNoGuard(hb, tm, id, cb) ==
    [hb |-> hbStart(hbStop(hb, id), id),
     tm |-> [tm EXCEPT !.made = @ + 1,
                       !.timers = @ \cup {[id |-> id, n |-> tm.made + 1]},
                       !.timerOf = [@ EXCEPT ![id] = tm.made + 1],
                       !.onTimeout = [@ EXCEPT ![id] = cb]]]

\* HeartbeatManager.start with its timer: the heartbeat table and the timers
start(hb, tm, id, cb) ==
    IF hbHas(hb, id) THEN [hb |-> hb, tm |-> tm]
    ELSE [hb |-> hbStart(hb, id),
          tm |-> [tm EXCEPT !.made = @ + 1,
                            !.timers = @ \cup {[id |-> id, n |-> tm.made + 1]},
                            !.timerOf = [@ EXCEPT ![id] = tm.made + 1],
                            !.onTimeout = [@ EXCEPT ![id] = cb]]]

\* HeartbeatManager.stop with its timer
stop(hb, tm, id) ==
    IF ~hbHas(hb, id) THEN [hb |-> hb, tm |-> tm]
    ELSE [hb |-> hbStop(hb, id),
          tm |-> [tm EXCEPT !.timers = @ \ {[id |-> id, n |-> tm.timerOf[id]]},
                            !.timerOf = [@ EXCEPT ![id] = NoTimerYet],
                            !.onTimeout = [@ EXCEPT ![id] = "none"]]]

BeatLogInit == [made |-> 0, timers |-> {}, timerOf |-> [i \in StreamIds |-> NoTimerYet],
             onTimeout |-> [i \in StreamIds |-> "none"],
             op |-> "none", id |-> 0, wasRunning |-> FALSE]

BeatInit ==
    /\ now = 0
    /\ InitRegistry
    /\ InitHeartbeats
    /\ InitQueues
    /\ InitJobs(StreamIds)
    /\ nextId = 0
    /\ log = BeatLogInit

BeatUnused == <<finishCalls, queues, cleanupTimers, proc, keyOf, activeStreams,
             deleteTimers, msgIdOf, nextId>>

\* the message branch of the HTTP handler creates the stream
BeatCreate(id) ==
    /\ ~Present(streams, id)
    /\ now = 0
    /\ streams' = createStream(streams, id)
    /\ log' = [log EXCEPT !.op = "create", !.id = id]
    /\ UNCHANGED <<now, heartbeats>>
    /\ UNCHANGED BeatUnused

\* heartbeatManager.start(id, {onTimeout: cb}), whether or not one is running
BeatStart(id, cb) ==
    /\ log.made < MaxStarts
    /\ LET r == start(heartbeats, log, id, cb)
       IN /\ heartbeats' = r.hb
          /\ log' = [r.tm EXCEPT !.op = "start", !.id = id,
                                 !.wasRunning = hbHas(heartbeats, id)]
    /\ UNCHANGED <<now, streams>>
    /\ UNCHANGED BeatUnused

BeatStop(id) ==
    /\ LET r == stop(heartbeats, log, id)
       IN /\ heartbeats' = r.hb
          /\ log' = [r.tm EXCEPT !.op = "stop", !.id = id,
                                 !.wasRunning = hbHas(heartbeats, id)]
    /\ UNCHANGED <<now, streams>>
    /\ UNCHANGED BeatUnused

\* a live timer fires: _tick(streamId, state), then onTimeout when it is due
BeatTick(t) ==
    /\ t \in log.timers
    /\ hbHas(heartbeats, t.id)
    /\ log.timerOf[t.id] = t.n
    /\ heartbeats[t.id].nextFire <= now
    /\ LET r == hbTick(heartbeats, streams, t.id)
           stopped == ~hbHas(r.hb, t.id)
       IN /\ heartbeats' = r.hb
          /\ streams' = IF r.timeout /\ log.onTimeout[t.id] # "none"
                        THEN onTimeoutStream(r.ss, t.id) ELSE r.ss
          /\ log' = [(IF stopped THEN stop(heartbeats, log, t.id).tm ELSE log)
                       EXCEPT !.op = "tick", !.id = t.id, !.wasRunning = TRUE]
    /\ UNCHANGED now
    /\ UNCHANGED BeatUnused

\* reply text arrives for the stream
BeatDeliver(id) ==
    /\ Present(streams, id)
    /\ ~streams[id].finished
    /\ streams[id].content # ReplyText
    /\ streams' = updateStream(streams, id, ReplyText, FALSE, <<>>)
    /\ log' = [log EXCEPT !.op = "deliver", !.id = id]
    /\ UNCHANGED <<now, heartbeats>>
    /\ UNCHANGED BeatUnused

BeatAdvance ==
    /\ now < MaxBeatTime
    /\ ~TickDue(heartbeats)
    /\ now' = now + HeartbeatInterval
    /\ log' = [log EXCEPT !.op = "advance", !.id = 0]
    /\ UNCHANGED <<streams, heartbeats>>
    /\ UNCHANGED BeatUnused

BeatNext ==
    \/ \E id \in BeatIds : BeatCreate(id)
    \/ \E id \in BeatIds, cb \in Callbacks : BeatStart(id, cb)
    \/ \E id \in BeatIds : BeatStop(id)
    \/ \E t \in log.timers : BeatTick(t)
    \/ \E id \in BeatIds : BeatDeliver(id)
    \/ BeatAdvance

SpecBeat == BeatInit /\ [][BeatNext]_vars

TimersOf(id) == {t \in log.timers : t.id = id}

\* C30: start(id) while a heartbeat is running for id creates no second timer
\* and leaves the run's start time, latch and callback unchanged; in every
\* reachable state there is at most one timer per stream id, and every timer
\* that exists is the one registered in the heartbeat table for its id.
C30_SingleHeartbeat ==
    /\ [](\A id \in BeatIds :
            /\ Cardinality(TimersOf(id)) <= 1
            /\ \A t \in TimersOf(id) : hbHas(heartbeats, id) /\ log.timerOf[id] = t.n
            /\ hbHas(heartbeats, id) => [id |-> id, n |-> log.timerOf[id]] \in log.timers
            /\ \A cb \in Callbacks :
                  hbHas(heartbeats, id)
                    => start(heartbeats, log, id, cb) = [hb |-> heartbeats, tm |-> log])
    /\ [][(log'.op = "start" /\ log'.wasRunning)
          => /\ heartbeats' = heartbeats
             /\ log'.timers = log.timers
             /\ log'.timerOf = log.timerOf
             /\ log'.onTimeout = log.onTimeout
             /\ log'.made = log.made]_vars

\* b was started with cbA, ticked until it latched real content, and start was
\* called again 6 s later with cbB: one timer, the old start time and callback
C30_Witness ==
    /\ log.op = "start"
    /\ log.wasRunning
    /\ hbHas(heartbeats, log.id)
    /\ heartbeats[log.id].hasContent
    /\ heartbeats[log.id].startTime + 2 * HeartbeatInterval <= now
    /\ log.onTimeout[log.id] = "cbA"
    /\ Cardinality(log.timers) = 2

\* ======================================================================
\* WecomCrypto.  A buffer is a sequence of bytes; a plaintext is a sequence
\* of characters, each standing for one character of its UTF-8 width, and
\* LONE for a surrogate code unit without its partner.
\* ======================================================================
BlockSize == 32
AesBlock == 16
RandomLen == 16
LenField == 4

CryptoChars == {"A1", "L2", "C3", "E4", "LONE"}

\* the UTF-8 encoding of one character; a lone surrogate is encoded as U+FFFD
Utf8Bytes(ch) ==
    CASE ch = "A1" -> <<97>>
      [] ch = "L2" -> <<195, 169>>
      [] ch = "C3" -> <<228, 184, 173>>
      [] ch = "E4" -> <<240, 159, 152, 128>>
      [] OTHER -> <<239, 191, 189>>

\* Buffer.from(text)
RECURSIVE BufferFrom(_)
BufferFrom(text) ==
    IF text = <<>> THEN <<>> ELSE Utf8Bytes(Head(text)) \o BufferFrom(Tail(text))

StartsWith(buf, bytes) == Len(buf) >= Len(bytes) /\ SubSeq(buf, 1, Len(bytes)) = bytes

Drop(buf, n) == SubSeq(buf, n + 1, Len(buf))

\* buf.toString("utf-8"); a byte that starts no character decodes to U+FFFD
RECURSIVE Utf8Decode(_)
Utf8Decode(buf) ==
    IF buf = <<>> THEN <<>>
    ELSE IF \E ch \in CryptoChars \ {"LONE"} : StartsWith(buf, Utf8Bytes(ch))
    THEN LET ch == CHOOSE c \in CryptoChars \ {"LONE"} : StartsWith(buf, Utf8Bytes(c))
         IN <<ch>> \o Utf8Decode(Drop(buf, Len(Utf8Bytes(ch))))
    ELSE IF StartsWith(buf, Utf8Bytes("FFFD"))
    THEN <<"FFFD">> \o Utf8Decode(Drop(buf, 3))
    ELSE <<"FFFD">> \o Utf8Decode(Tail(buf))

Fill(n, v) == [i \in 1..n |-> v]

\* lenBuffer.writeUInt32BE(n, 0)
writeUInt32BE(n) ==
    <<(n \div 16777216) % 256, (n \div 65536) % 256, (n \div 256) % 256, n % 256>>

\* lenList.readUInt32BE(0)
readUInt32BE(b) == b[1] * 16777216 + b[2] * 65536 + b[3] * 256 + b[4]

\* encodePkcs7 padding up to the next block even when the buffer fills its last
\* block exactly: no pad block is added then
encodePkcs7NoFullBlock(buff) ==
    LET amountToPad == (BlockSize - (Len(buff) % BlockSize)) % BlockSize
    IN buff \o Fill(amountToPad, amountToPad)

encodePkcs7(buff) ==
    LET amountToPad == BlockSize - (Len(buff) % BlockSize)
    IN buff \o Fill(amountToPad, amountToPad)

CryptoError == [ok |-> FALSE, message |-> <<>>]

\* decodePkcs7: the buffer without its padding, or the throw
decodePkcs7(buff) ==
    IF buff = <<>> THEN [ok |-> TRUE, buff |-> <<>>]
    ELSE LET pad == buff[Len(buff)]
         IN IF pad < 1 \/ pad > BlockSize THEN [ok |-> FALSE, buff |-> <<>>]
            ELSE IF \E i \in (Len(buff) - pad + 1)..Len(buff) : i < 1 \/ buff[i] # pad
            THEN [ok |-> FALSE, buff |-> <<>>]
            ELSE [ok |-> TRUE, buff |-> SubSeq(buff, 1, Len(buff) - pad)]

\* the key: aes-256-cbc with a fixed key and iv and no automatic padding is a
\* length-preserving one-to-one map on buffers of whole blocks, and base64 a
\* one-to-one map between buffers and their text
aesKey == 7

Cipher(buf) == [i \in 1..Len(buf) |-> (buf[i] + aesKey) % 256]

Decipher(text) == [i \in 1..Len(text) |-> (text[i] + 256 - aesKey) % 256]

\* WecomCrypto.encrypt with the 16 random bytes all equal to rnd
encrypt(text, rnd) ==
    LET msgBuffer == BufferFrom(text)
        rawMsg == Fill(RandomLen, rnd) \o writeUInt32BE(Len(msgBuffer)) \o msgBuffer
    IN Cipher(encodePkcs7(rawMsg))

\* WecomCrypto.decrypt: {message}, or the throw of decipher.final, decodePkcs7
\* or readUInt32BE; subarray clamps its end to the buffer
decrypt(text) ==
    IF Len(text) % AesBlock # 0 THEN CryptoError
    ELSE LET d == decodePkcs7(Decipher(text))
             content == Drop(d.buff, RandomLen)
         IN IF ~d.ok \/ Len(content) < LenField THEN CryptoError
            ELSE LET xmlLen == readUInt32BE(content)
                 IN [ok |-> TRUE,
                     message |-> Utf8Decode(SubSeq(content, LenField + 1,
                                                   Min(LenField + xmlLen, Len(content))))]

\* ======================================================================
\* SpecCrypto: a plaintext is encrypted and the text decrypted again, or a
\* text arrives whose deciphered buffer was put together by the sender.
\* ======================================================================
Plaintexts == UNION {[1..n -> CryptoChars] : n \in 0..MaxChars}

PadKinds == {"valid", "zero", "over", "mixed"}

Padding(buff, kind) ==
    LET n == BlockSize - (Len(buff) % BlockSize)
    IN CASE kind = "valid" -> Fill(n, n)
         [] kind = "zero" -> Fill(n, 0)
         [] kind = "over" -> Fill(n, BlockSize + 1)
         [] OTHER -> Fill(n - 1, 0) \o <<n>>

Framed(declared, payload, kind) ==
    LET raw == Fill(RandomLen, 0) \o writeUInt32BE(declared) \o payload
    IN raw \o Padding(raw, kind)

\* deciphered buffers with a declared length of 0..2 over a payload of 0 or 1
\* bytes, under each kind of padding
ReceivedBuffers ==
    {Framed(dl, pl, k) : dl \in 0..2, pl \in {<<>>, <<97>>}, k \in PadKinds}

CLogInit == [stage |-> "none", plain |-> <<>>, rnd |-> 0, text |-> <<>>, made |-> FALSE,
             result |-> CryptoError]

CInit ==
    /\ now = 0
    /\ InitRegistry
    /\ InitHeartbeats
    /\ InitQueues
    /\ InitJobs(StreamIds)
    /\ nextId = 0
    /\ log = CLogInit

CAllButLog == <<now, streams, finishCalls, heartbeats, queues, cleanupTimers, proc, keyOf,
                activeStreams, deleteTimers, nextId, msgIdOf>>

CEncrypt(text, rnd) ==
    /\ log.stage = "none"
    /\ log' = [log EXCEPT !.stage = "encrypted", !.plain = text, !.rnd = rnd,
                          !.text = encrypt(text, rnd)]
    /\ UNCHANGED CAllButLog

CReceive(buf) ==
    /\ log.stage = "none"
    /\ log' = [log EXCEPT !.stage = "received", !.text = Cipher(buf), !.made = TRUE]
    /\ UNCHANGED CAllButLog

CDecrypt ==
    /\ log.stage \in {"encrypted", "received"}
    /\ log' = [log EXCEPT !.stage = "decrypted", !.result = decrypt(log.text)]
    /\ UNCHANGED CAllButLog

CNext ==
    \/ \E text \in Plaintexts, rnd \in {0, 255} : CEncrypt(text, rnd)
    \/ \E buf \in ReceivedBuffers : CReceive(buf)
    \/ CDecrypt

SpecCrypto == CInit /\ [][CNext]_vars

\* the padded buffer encrypt hands to the cipher
PaddedOf(l) == Decipher(l.text)

PaddingValid(buf) ==
    /\ buf # <<>>
    /\ buf[Len(buf)] \in 1..32
    /\ buf[Len(buf)] <= Len(buf)
    /\ \A i \in (Len(buf) - buf[Len(buf)] + 1)..Len(buf) : buf[i] = buf[Len(buf)]

\* a step that decrypts what encrypt made of a plaintext in texts gives it back
RoundTrip(texts) ==
    (log'.stage = "decrypted" /\ ~log.made /\ log.plain \in texts)
        => (log'.result.ok /\ log'.result.message = log.plain)

PaddedWell ==
    log.stage = "encrypted"
        => /\ Len(PaddedOf(log)) > 0
           /\ Len(PaddedOf(log)) % 32 = 0
           /\ PaddingValid(PaddedOf(log))
           /\ Len(PaddedOf(log)) - PaddedOf(log)[Len(PaddedOf(log))]
                = 20 + Len(BufferFrom(log.plain))

\* C28 as stated: for every plaintext, also the empty one and those with
\* multi-byte characters, decrypt(encrypt(P)) gives P, and the buffer encrypt
\* pads has a length that is a positive multiple of 32 with 1 to 32 pad bytes
\* each equal to the pad length.
C28_RoundTrip == [][RoundTrip(Plaintexts)]_vars /\ []PaddedWell

WellFormedText(text) == \A i \in 1..Len(text) : text[i] # "LONE"

\* C28 (amended): the round trip holds for every plaintext that is well-formed
\* UTF-16 (a lone surrogate comes back as U+FFFD); the padding is as stated
\* for every plaintext.
C28_RoundTripWellFormed ==
    [][RoundTrip({text \in Plaintexts : WellFormedText(text)})]_vars /\ []PaddedWell

\* a plaintext of three 4-byte characters, which fills its block exactly and
\* gets a whole block of padding, has come back from decrypt unchanged
C28_Witness ==
    /\ log.stage = "decrypted"
    /\ ~log.made
    /\ log.plain = <<"E4", "E4", "E4">>
    /\ log.result.ok
    /\ log.result.message = log.plain
    /\ Len(log.text) = 64

\* the length the frame declares is larger than what follows the length field
DeclaredTooLong(buf) ==
    /\ PaddingValid(buf)
    /\ Len(buf) - buf[Len(buf)] >= 20
    /\ readUInt32BE(SubSeq(buf, 17, 20)) > Len(buf) - buf[Len(buf)] - 20

\* C29: decrypt fails, and returns no plaintext, for every text whose
\* deciphered buffer has invalid padding and for every text whose declared
\* payload length exceeds the bytes that follow the 16-byte prefix and the
\* length field.
C29_DecryptRejects ==
    [][(log'.stage = "decrypted"
        /\ (~PaddingValid(Decipher(log.text)) \/ DeclaredTooLong(Decipher(log.text))))
       => ~log'.result.ok]_vars

\* ======================================================================
\* SpecItems: one stream that is given more attachments than a reply may
\* carry, through queueImage before and during a finish and through update.
\* ======================================================================
MaxImages == MaxMsgItems + 1

\* an item list longer than the limit, as a caller of updateStream may pass
TooManyItems == [i \in 1..MaxImages |-> "item"]

IQueueImage ==
    /\ Present(streams, 1)
    /\ Len(streams[1].pendingImages) < MaxImages
    /\ streams' = queueImage(streams, 1, "img1")
    /\ log' = SLog("queueImage", 1)
    /\ UNCHANGED <<finishCalls, nextId>>
    /\ UNCHANGED SUnused

\* one finishStream call at a time
IFinish == finishCalls = <<>> /\ SFinish(1)

INext ==
    \/ SCreate
    \/ IQueueImage
    \/ IFinish
    \/ SPrepared(1, TRUE)
    \/ SPrepared(1, FALSE)
    \/ SUpdate(1, <<>>, TRUE, TooManyItems)

SpecItems == SInit /\ [][INext]_vars

\* C27: in every reachable state every stream holds at most 10 items in
\* msgItem, also when more than 10 images were queued before the finish and
\* when updateStream is given more than 10 items.
C27_AtMostTenItems ==
    \A id \in StreamIds : Present(streams, id) => Len(streams[id].msgItem) <= 10

\* more than 10 images were queued and prepared, and the finished stream
\* carries exactly 10 items
C27_Witness ==
    /\ Present(streams, 1)
    /\ streams[1].finished
    /\ Len(streams[1].pendingImages) > 10
    /\ Len(streams[1].msgItem) = 10
    /\ streams[1].msgItem[1] = "img1"

\* ======================================================================
\* SpecFinalize: one finishStream call on a stream with up to 12 queued
\* images, each known by its place in the queue; every call of the preparer
\* succeeds or fails, and images may still be queued while the pass runs.
\* log.outcomes lists the preparer calls made so far, in order.
\* ======================================================================
FinImages == MaxMsgItems + 2

FinLogInit == [outcomes |-> <<>>, begun |-> FALSE, done |-> FALSE, total |-> 0]

FinInit ==
    /\ now = 0
    /\ streams = createStream([i \in StreamIds |-> NoStream], 1)
    /\ finishCalls = <<>>
    /\ InitHeartbeats
    /\ InitQueues
    /\ InitJobs(StreamIds)
    /\ nextId = 1
    /\ log = FinLogInit

FinQueueImage ==
    /\ ~log.done
    /\ Len(streams[1].pendingImages) < FinImages
    /\ streams' = queueImage(streams, 1, Len(streams[1].pendingImages) + 1)
    /\ UNCHANGED <<finishCalls, nextId, log>>
    /\ UNCHANGED SUnused

FinBegin ==
    /\ ~log.begun
    /\ LET r == finishStreamBegin(streams, finishCalls, 1)
       IN /\ streams' = r.ss
          /\ finishCalls' = r.calls
          /\ log' = [log EXCEPT !.begun = TRUE, !.done = r.calls = <<>>,
                                !.total = Len(streams[1].pendingImages)]
    /\ UNCHANGED nextId
    /\ UNCHANGED SUnused

FinSettled(ok) ==
    /\ finishCalls # <<>>
    /\ LET r == prepareSettled(streams, finishCalls, 1, ok)
       IN /\ streams' = r.ss
          /\ finishCalls' = r.calls
          /\ log' = [log EXCEPT !.outcomes = Append(@, ok), !.done = r.calls = <<>>,
                                !.total = Len(streams[1].pendingImages)]
    /\ UNCHANGED nextId
    /\ UNCHANGED SUnused

FinNext ==
    \/ FinQueueImage
    \/ FinBegin
    \/ FinSettled(TRUE)
    \/ FinSettled(FALSE)

SpecFinalize == FinInit /\ [][FinNext]_vars

\* the places, in order, of the preparer calls that succeeded
Succeeded(outcomes) ==
    SelectSeq([i \in 1..Len(outcomes) |-> i], LAMBDA i : outcomes[i])

\* C35: the pass over the pending attachments returns, in enqueue order,
\* exactly one item for each attachment whose preparation succeeded, up to the
\* first 10 successes; a failure skips its item and the pass goes on; the
\* preparer is never called once 10 items have succeeded.
C35_FinalizeKeepsSuccesses ==
    /\ \A n \in 1..Len(log.outcomes) :
          Len(Succeeded(SubSeq(log.outcomes, 1, n - 1))) < 10
    /\ Len(log.outcomes) <= Len(streams[1].pendingImages)
    /\ log.done =>
          LET s == Succeeded(log.outcomes)
          IN /\ streams[1].msgItem = [n \in 1..Len(s) |-> streams[1].pendingImages[s[n]].path]
             /\ Len(log.outcomes) = log.total \/ Len(s) = 10

\* of 12 queued images the second failed, the pass went on to the eleventh,
\* which made the tenth item, and the twelfth was never prepared
C35_Witness ==
    /\ log.done
    /\ Len(streams[1].pendingImages) = 12
    /\ Len(log.outcomes) = 11
    /\ ~log.outcomes[2]
    /\ streams[1].msgItem = <<1, 3, 4, 5, 6, 7, 8, 9, 10, 11>>

\* ======================================================================
\* SpecSweep: the registry with its periodic expiry sweep; streams are
\* created and touched, time passes in steps of half the default expiry.
\* ======================================================================
SweepStep == DefaultExpiry \div 2
MaxSweepTime == DefaultExpiry + SweepStep

\* the expiry values setExpiry is called with: never, or half the default
Expiries == {0, SweepStep}

KInit ==
    /\ now = 0
    /\ InitRegistry
    /\ InitHeartbeats
    /\ InitQueues
    /\ InitJobs(StreamIds)
    /\ nextId = 0
    /\ log = [op |-> "none"]

KUnused == <<finishCalls, heartbeats, queues, cleanupTimers, proc, keyOf, activeStreams,
             deleteTimers, msgIdOf>>

KCreate ==
    /\ nextId < MaxStreams
    /\ nextId' = nextId + 1
    /\ streams' = createStream(streams, nextId + 1)
    /\ log' = [op |-> "other"]
    /\ UNCHANGED now
    /\ UNCHANGED KUnused

\* a write to the stream refreshes updatedAt
KAppend(id) ==
    /\ Present(streams, id)
    /\ streams[id].content = <<>>
    /\ streams' = appendStream(streams, id, Str("R1", 1))
    /\ log' = [op |-> "other"]
    /\ UNCHANGED <<now, nextId>>
    /\ UNCHANGED KUnused

\* the interval callback: cleanup() with no expiry set
KSweep ==
    /\ streams' = cleanup(streams, 0)
    /\ log' = [op |-> "sweep"]
    /\ UNCHANGED <<now, nextId>>
    /\ UNCHANGED KUnused

KAdvance ==
    /\ now < MaxSweepTime
    /\ now' = now + SweepStep
    /\ log' = [op |-> "other"]
    /\ UNCHANGED <<streams, nextId>>
    /\ UNCHANGED KUnused

KNext ==
    \/ KCreate
    \/ \E id \in StreamIds : KAppend(id)
    \/ KSweep
    \/ KAdvance

SpecSweep == KInit /\ [][KNext]_vars

\* what a sweep with expiry e makes of the registry: every stream older than
\* the timeout is gone, every stream younger than it is untouched, and no
\* record appears
SweepExact(before, after, e) ==
    \A id \in StreamIds :
        /\ ~Present(before, id) => ~Present(after, id)
        /\ Present(before, id) =>
              /\ now - before[id].updatedAt > expiryTimeout(e)
                    => getStream(after, id) = NoStream
              /\ now - before[id].updatedAt < expiryTimeout(e)
                    => getStream(after, id) = before[id]

\* C26: a sweep removes every stream whose updatedAt is older than the
\* expiry timeout (600,000 ms unless set) and no other: afterwards get finds
\* none of them, and every stream updated more recently is present unchanged.
C26_SweepRemovesExpiredOnly ==
    /\ [](\A e \in Expiries : SweepExact(streams, cleanup(streams, e), e))
    /\ [][log'.op = "sweep" => SweepExact(streams, streams', 0)]_vars

\* a sweep has removed the stream that was idle for longer than the timeout
\* and kept the one written to since
C26_Witness ==
    /\ log.op = "sweep"
    /\ nextId = MaxStreams
    /\ ~Present(streams, 1)
    /\ \E id \in StreamIds : Present(streams, id) /\ streams[id].content # <<>>
                              /\ now - streams[id].updatedAt > 0

\* ----------------------------------------------------------------- properties
RunningOn(k) == {j \in JobIds : proc[j] # "none" /\ keyOf[j] = k}

Backlog(qs, k) == IF qs[k] = NoQueue THEN <<>> ELSE qs[k].queue

BacklogJobs(qs, k) == {Backlog(qs, k)[i] : i \in 1..Len(Backlog(qs, k))}

\* job b's processor is invoked in this step
Starts(b) == proc[b] = "none" /\ proc'[b] # "none"

\* C1: for every key, at most one processor invocation started by the queue is
\* in progress at any moment, whatever enqueue, completion, cancel and reset
\* calls have happened.
C1_NoOverlap == \A k \in Keys : Cardinality(RunningOn(k)) <= 1

\* C3: on one key, processors start in the order of the enqueue calls, and a job
\* never starts unless every accepted job enqueued before it on that key has
\* been started.
C3_StartsFollowEnqueueOrder ==
    [][\A b \in JobIds : Starts(b) =>
          LET k == keyOf'[b]
          IN /\ b > log.lastStarted[k]
             /\ \A a \in BacklogJobs(queues', k) : a > b
             /\ log'.discarded[k] = None]_vars

\* C3 as amended: on one key, processors start in the order of the enqueue
\* calls, and a job never starts while a job enqueued before it on that key
\* still waits in the backlog (a job that cancel or reset removed from the
\* backlog is never started and does not hold later jobs back).
C3_StartsFollowBacklogOrder ==
    [][\A b \in JobIds : Starts(b) =>
          LET k == keyOf'[b]
          IN /\ b > log.lastStarted[k]
             /\ \A a \in BacklogJobs(queues', k) : a > b]_vars

\* a job taken from the backlog runs while a later one still waits behind it
C3_Witness ==
    \E k \in Keys :
        /\ log.startedVia[k] = "backlog"
        /\ proc[log.lastStarted[k]] = "running"
        /\ Len(Backlog(queues, k)) >= 1

\* C21: when a processor ends, by return or by throw, the oldest backlog entry
\* of its key is started in the same step; and when every processor ends,
\* every job that enters a backlog is eventually started, unless a cancel or a
\* reset empties that backlog first.
C21_BacklogDrains ==
    /\ [][\A j \in JobIds :
            (proc[j] = "running" /\ proc'[j] = "none" /\ Backlog(queues, keyOf[j]) # <<>>)
            => (/\ proc'[Head(Backlog(queues, keyOf[j]))] = "running"
                /\ Backlog(queues', keyOf[j]) = Tail(Backlog(queues, keyOf[j])))]_vars
    /\ \A j \in 1..MaxJobs :
           (j \in BacklogJobs(queues, "userA") /\ log.discarded["userA"] = None)
              ~> (proc[j] = "running" \/ log.discarded["userA"] # None)

\* a backlog job runs because the processor before it threw
C21_Witness ==
    /\ log.how = "throw"
    /\ log.startedVia["userA"] = "backlog"
    /\ log.discarded["userA"] = None
    /\ proc[log.lastStarted["userA"]] = "running"
    /\ ~InBacklog(log.lastStarted["userA"])

\* C22: the reclamation timer deletes a key's queue state only when its
\* generation is the state's current one and the state is idle with an empty
\* backlog; it never deletes the state of a key on which a processor
\* invocation is in progress or whose backlog is non-empty.
C22_ReclaimOnlyIdle ==
    [][\A k \in Keys :
          (queues[k] # NoQueue /\ queues'[k] = NoQueue)
          => (/\ cleanupTimers # <<>>
              /\ Head(cleanupTimers).key = k
              /\ Head(cleanupTimers).gen = queues[k].cleanupGen
              /\ ~queues[k].processing
              /\ queues[k].queue = <<>>
              /\ \A j \in JobIds : ~(proc[j] = "running" /\ keyOf[j] = k))]_vars

\* a key that is busy with a full backlog
FullState == [processing |-> TRUE, currentStreamId |-> 1, queue |-> <<2, 3, 4, 5, 6>>,
              cleanupGen |-> 0]

OtherStates == {NoQueue, NewQueueState, FullState}

\* what an operation on key b returns and does to b's state
OnKey(r, b) == [r EXCEPT !.queues = r.queues[b]]

\* enqueue, _processNext, cancel and reset on key b give the same result and the
\* same new state of b whatever the state of the other key a, and leave a's
\* state as it was
Isolated(a, b) ==
    \A other \in OtherStates :
        LET qs == [queues EXCEPT ![a] = other]
        IN /\ OnKey(enqueue(qs, b, MaxBurst), b) = OnKey(enqueue(queues, b, MaxBurst), b)
           /\ OnKey(processNext(qs, b), b) = OnKey(processNext(queues, b), b)
           /\ cancel(qs, b)[b] = cancel(queues, b)[b]
           /\ reset(qs, b)[b] = reset(queues, b)[b]
           /\ enqueue(qs, b, MaxBurst).queues[a] = other
           /\ processNext(qs, b).queues[a] = other
           /\ cancel(qs, b)[a] = other
           /\ reset(qs, b)[a] = other

\* C23: no operation on a key reads or changes the queue state of another
\* key: a step changes the state and the processors of the key it works on
\* only, an enqueue on an idle key starts its processor in the call whatever
\* the other key's state, and an enqueue on a busy key is queued behind that
\* key's own job.
C23_KeysIsolated ==
    /\ [](\A a \in Keys : \A b \in Keys \ {a} : Isolated(a, b))
    /\ [][\A a \in Keys : \A b \in Keys \ {a} :
            ~(queues'[a] # queues[a] /\ queues'[b] # queues[b])]_vars
    /\ [][EnqueueStep =>
            LET k == log'.last.key
                j == log'.last.job
            IN /\ \A b \in Keys \ {k} : queues'[b] = queues[b]
               /\ \A i \in JobIds \ {j} : proc'[i] = proc[i]
               /\ ~isProcessing(queues, k) => proc'[j] = "running"
               /\ isProcessing(queues, k) => proc'[j] = "none"]_vars
    /\ [][\A j \in JobIds : (proc[j] = "running" /\ proc'[j] = "none") =>
            /\ \A b \in Keys \ {keyOf[j]} : queues'[b] = queues[b]
            /\ \A i \in JobIds \ {j} : proc'[i] # proc[i] => keyOf[i] = keyOf[j]]_vars

\* key A is busy with a job waiting behind it, and a job of key B was started
\* by its enqueue call and runs beside A's
C23_Witness ==
    \E a \in Keys : \E b \in Keys \ {a} :
        /\ isProcessing(queues, a)
        /\ getQueueLength(queues, a) >= 1
        /\ RunningOn(a) # {}
        /\ log.last.key = b
        /\ ~log.last.queued
        /\ proc[log.last.job] = "running"
        /\ log.startedVia[b] = "enqueue"

\* C4: a backlog never holds more than 5 entries; an enqueue arriving while a
\* job executes and the backlog holds 5 entries returns {queued:false,
\* queueFull:true}, stores nothing, and the rejected job's processor is never
\* invoked.
C4_BacklogBounded ==
    /\ [](\A k \in Keys : getQueueLength(queues, k) <= 5)
    /\ [][EnqueueStep =>
            LET k == log'.last.key
            IN (isProcessing(queues, k) /\ getQueueLength(queues, k) >= 5) =>
                  /\ log'.last.queueFull /\ ~log'.last.queued
                  /\ queues' = queues
                  /\ proc' = proc]_vars
    /\ [][\A j \in JobIds :
            (j <= nextId /\ proc[j] = "none" /\ j \notin BacklogJobs(queues, "userA"))
                => proc'[j] = "none"]_vars

\* n enqueue calls in a row on the key, the first job still executing and
\* nothing completed, cancelled or reset since
BurstSoFar(n) ==
    /\ nextId = n
    /\ isProcessing(queues, "userA")
    /\ proc[1] = "running"
    /\ Backlog(queues, "userA") = [i \in 1..(n - 1) |-> i + 1]

\* C20: enqueue on an idle key returns {queued:false} and starts the processor
\* in the call; with a job executing and p-1 < 5 backlog entries it returns
\* {queued:true, position:p} and stores the job as entry p.  So in a burst of
\* 7 calls on one key with nothing completing, job 1 starts at once, jobs 2..6
\* are queued at positions 1..5, and job 7 is answered queueFull.
C20_EnqueueReturns ==
    [][EnqueueStep =>
         LET r == log'.last
             k == r.key
             len == getQueueLength(queues, k)
         IN /\ ~isProcessing(queues, k)
                  => (/\ ~r.queued /\ ~r.queueFull
                      /\ proc'[r.job] = "running"
                      /\ isProcessing(queues', k)
                      /\ Backlog(queues', k) = Backlog(queues, k))
            /\ (isProcessing(queues, k) /\ len < 5)
                  => (/\ r.queued /\ ~r.queueFull
                      /\ r.position = len + 1
                      /\ Backlog(queues', k) = Append(Backlog(queues, k), r.job)
                      /\ proc'[r.job] = "none")
            /\ nextId = 0 => (~r.queued /\ proc'[1] = "running")
            /\ \A n \in 1..5 : BurstSoFar(n) => (r.queued /\ r.position = n /\ r.job = n + 1)
            /\ BurstSoFar(6) => (r.queueFull /\ ~r.queued /\ r.job = 7)]_vars

\* the seventh call of an undisturbed burst has just been answered queueFull
C20_Witness ==
    /\ nextId = 7
    /\ log.last.job = 7
    /\ log.last.queueFull
    /\ proc[1] = "running"
    /\ Backlog(queues, "userA") = <<2, 3, 4, 5, 6>>

\* the overflowing enqueue has just been rejected with the backlog at 5
C4_Witness ==
    /\ log.last.queueFull
    /\ getQueueLength(queues, log.last.key) = 5
    /\ proc[log.last.job] = "none"
    /\ log.last.job \notin BacklogJobs(queues, log.last.key)

\* ----------------------------------------------------------------------
\* the tick finds its stream gone or finished before the deadline
TickOnDeadStream ==
    /\ log'.last = "tick"
    /\ hbHas(heartbeats, 1)
    /\ heartbeats[1].nextFire <= now
    /\ now - heartbeats[1].startTime < MaxTimeout
    /\ ~Present(streams, 1) \/ streams[1].finished

\* C31: a tick before the deadline on a stream that no longer exists or is
\* already finished stops the heartbeat, invokes no onTimeout and writes
\* nothing to the registry; a stopped heartbeat does not tick again.
C31_TickOnDeadStreamStops ==
    /\ [][TickOnDeadStream
           => (/\ ~hbHas(heartbeats', 1)
               /\ streams' = streams
               /\ log'.timeouts = log.timeouts)]_vars
    /\ [][(nextId = 1 /\ ~hbHas(heartbeats, 1))
           => (~hbHas(heartbeats', 1) /\ log'.last # "tick")]_vars

\* a tick at 3 s or later found the stream finished and stopped the heartbeat
C31_Witness ==
    /\ log.last = "tick"
    /\ ~hbHas(heartbeats, 1)
    /\ Present(streams, 1)
    /\ streams[1].finished
    /\ log.timeouts = 0
    /\ now < MaxTimeout

\* C32: in every reachable state, also after reset and cancel, isProcessing(key)
\* is true exactly when a processor invocation for the key is in progress, and
\* getCurrentStreamId(key) is the stream id of that job, or none when no job
\* of the key is in progress.
C32_BusyMeansRunning ==
    \A k \in Keys :
        /\ isProcessing(queues, k) <=> RunningOn(k) # {}
        /\ RunningOn(k) = {} => getCurrentStreamId(queues, k) = None
        /\ \A j \in RunningOn(k) : getCurrentStreamId(queues, k) = j

FinishReturnsTrue(id) ==
    /\ Present(streams', id)
    /\ \/ /\ log'.op = "finish" /\ log'.id = id /\ ~log'.rejected
          /\ finishCalls' = finishCalls
          /\ ~streams[id].finished
       \/ /\ Len(finishCalls') < Len(finishCalls)
          /\ \E i \in 1..Len(finishCalls) : finishCalls[i].sid = id

\* C34: after finish(id) returns true the stream's list of pending attachments
\* is empty.
C34_PendingClearedByFinish ==
    [][\A id \in RegIds : FinishReturnsTrue(id) => streams'[id].pendingImages = <<>>]_vars

\* C36: when enqueue returns {queued: true, position: p} for a message, the
\* message's stream gets the position-p waiting notice as content with
\* finished = false, and while the message waits in the backlog no heartbeat
\* tick replaces the notice with placeholder text: every step before the
\* deadline leaves the stream as it is, and a waiting message's stream always
\* shows a waiting notice.
C36_WaitingNoticeStays ==
    /\ [][nextId' = nextId + 1 =>
            LET j == nextId + 1
                r == enqueue(queues, "userA", j)
            IN r.queued => /\ r.position = Len(Backlog(queues, "userA")) + 1
                           /\ streams'[j].content = WaitingMessage(r.position)
                           /\ ~streams'[j].finished]_vars
    /\ [][\A j \in JobIds :
            (InBacklog(j) /\ Present(streams, j) /\ Present(streams', j))
               => /\ ~IsPlaceholder(streams'[j].content)
                  /\ now - heartbeats[j].startTime < MaxTimeout
                        => streams'[j] = streams[j]]_vars
    /\ [](\A j \in JobIds : InBacklog(j) =>
             /\ Present(streams, j)
             /\ hbHas(heartbeats, j)
             /\ \E p \in 1..MaxQueueSize : streams[j].content = WaitingMessage(p))

\* the third message waits second in line and its heartbeat has ticked twice
\* without touching the notice
C36_Witness ==
    /\ Backlog(queues, "userA") = <<2, 3>>
    /\ streams[3].content = WaitingMessage(2)
    /\ ~streams[3].finished
    /\ heartbeats[3].hasContent
    /\ now >= 2 * HeartbeatInterval

\* C37: any poll for a message's stream made after the synchronous reply and
\* before the processor has written content or finished (and before the
\* deadline) returns finish = false with non-empty placeholder content, a
\* thinking phrase followed by 1 to 4 dots.
C37_PollShowsPlaceholder ==
    (nextId = 1 /\ log.undisturbed /\ log.timeouts = 0)
        => LET r == pollReply(streams, 1)
           IN /\ ~r.finish
              /\ r.content # <<>>
              /\ IsPlaceholder(r.content)

\* the deadline of stream j fires in this step
TimesOut(j) == j \in log'.timedOut /\ j \notin log.timedOut

\* C38: a heartbeat timeout for a stream whose job is still waiting in its
\* key's backlog leaves the key's busy flag, the executing job's identity and
\* all other backlog entries unchanged.
C38_WaitingTimeoutSparesKey ==
    [][\A j \in StreamIds :
         (TimesOut(j) /\ InBacklog(j)) =>
            LET k == keyOf[j]
            IN /\ isProcessing(queues', k) = isProcessing(queues, k)
               /\ getCurrentStreamId(queues', k) = getCurrentStreamId(queues, k)
               /\ \A i \in BacklogJobs(queues, k) \ {j} : i \in BacklogJobs(queues', k)]_vars

\* a poll for stream j returns finish = true
Terminal(j) == pollReply(streams, j).finish

C40_ActiveStreamKept ==
    \A j \in JobIds :
        (proc[j] # "none" /\ Present(streams, j) /\ ~streams[j].finished)
            => activeStreams[keyOf[j]] = j

====
